---- MODULE Spec2Model ----
(***************************************************************************)
(* DPS-OS: the zone state machine of dps_app.py (DPSMonitor.transition_zone *)
(* with the "sticky Ultra" lock) driven by its observers: the USB monitor  *)
(* (Linux udev loop or Windows polling loop), the process monitor, the URL *)
(* monitor and the /api/simulate_event handler.  Every observer runs in    *)
(* its own thread and Flask serves requests in threads too; the program    *)
(* takes no lock anywhere, so the threads interleave between statements.   *)
(* One action of the model is one statement (one shared read or write) of  *)
(* a handler; pc[t] is the statement thread t executes next.               *)
(***************************************************************************)
EXTENDS Integers, Sequences, FiniteSets, TLC

(* ------------------------------ bounds -------------------------------- *)
\* number of events (udev events, polled drive changes, detected processes,
\* detected URLs, API requests) handled in one behaviour
MaxHandled == 3
\* number of handlers in progress at the same time
MaxActive == 2
\* system.max_events, the capacity of the event log (1000 by default)
max_events == 2
\* number of edges of a rule document
MaxRules == 2
\* number of connections the daemon accepts in one behaviour
MaxServed == 3
\* number of seconds the clock advances in one behaviour
MaxTicks == 3
\* length of the list execute_actions is given
MaxActions == 3
\* number of add_event calls in one behaviour of the event log
MaxLogged == 4

(* ----------------------------- constants ------------------------------ *)
\* block devices the USB observer reports
Devices == {"sdb1", "sdc1"}
\* device ids a simulate_event request carries ('test_usb' when absent)
ApiDevices == {"sdb1", "test_usb"}
Threads == {"usb", "proc", "url", "api"}
None == "None"

\* A URL is modelled by the set of substrings of interest it contains: every
\* test detect_bank_url makes is a substring test on the lower-cased URL.
Url(text, has) == [text |-> text, has |-> has]
BankUrl == Url("https://test.bank.com/login", {"https://", "bank", ".bank", ".bank.com", "login"})
PlainUrl == Url("https://example.com", {"https://"})
Urls == {BankUrl, PlainUrl}

financial_keywords == {"bank", "banking", "finance", "payment", "paypal", "login"}
financial_domains == {".bank", ".finance", ".pay"}

(* ------------------------------- state -------------------------------- *)
VARIABLES
  platform,                  \* platform.system(): which USB loop runs
  current_zone,              \* DPSMonitor.current_zone
  ultra_mode_locked,         \* DPSMonitor.ultra_mode_locked
  connected_usb_devices,     \* DPSMonitor.connected_usb_devices (lock witnesses)
  zone_transitions,          \* DPSMonitor.stats["zone_transitions"]
  events,                    \* DPSMonitor.events, newest first
  clipboard_blocked,         \* DPSMonitor.clipboard_blocked
  clipboard_monitor_thread,  \* DPSMonitor.clipboard_monitor_thread: None or a Thread
  seen_drives,               \* locals of the Windows monitor_usb loop
  current_drives,
  new_drives,
  removed_drives,
  pc,                        \* per thread: the statement executed next
  dev,                       \* per thread: device_id / drive / request device
  url,                       \* per thread: the URL of the event being handled
  new_zone,                  \* per thread: transition_zone's argument
  reason,                    \* per thread: transition_zone's argument
  old_zone,                  \* per thread: transition_zone's local
  tmp,                       \* per thread: the value read by  stats[...] += 1
  ret,                       \* per thread: where transition_zone returns to
  actions,                   \* per thread: the result of execute_actions
  outcome,                   \* per thread: what became of the event's transition request
  accepted,                  \* history: number of transition_zone calls that were accepted
  entry,                     \* history: the zone state when the USB thread took up its event
  handled,                   \* history: number of events taken up so far
  api_entry,                 \* history: the zone state when the API took up its URL request
  rules,                     \* RuleEngine.rules['edges'], in declaration order
  lastTriggerTimes,          \* RuleEngine.lastTriggerTimes: rule key -> time of the last firing
  clock,                     \* what time.time() returns
  dpc,                       \* per daemon connection thread: the statement executed next
  event,                     \* per connection thread: the decoded event
  candidates,                \* per connection thread: evaluate's local, positions in rules
  selected,                  \* per connection thread: evaluate's local, a position in rules
  now,                       \* per connection thread: evaluate's local
  last,                      \* per connection thread: evaluate's local
  edge,                      \* per connection thread: what evaluate returned
  applied,                   \* per connection thread: the actions applyActions was given
  served,                    \* history: number of connections accepted so far
  fired,                     \* history: rule key -> time evaluate last returned a rule with a cooldown
  action_list,               \* execute_actions: its argument
  results,                   \* execute_actions: its local, one entry per action handled
  invoked,                   \* history: the action methods execute_actions has called, in order
  exec_pc,                   \* execute_actions: the statement executed next
  actions_executed,          \* DPSMonitor.stats["actions_executed"]
  conn_error,                \* per connection thread: handle_conn's except clause ran
  loaded,                    \* the RuleEngine has been constructed
  config_error,              \* the construction of the RuleEngine raised
  d_actions,                 \* ActionDispatcher.applyActions: its argument
  d_done,                    \* history: the actions whose branch applyActions ran, in order
  d_pc,                      \* ActionDispatcher.applyActions: the statement executed next
  log_pc,                    \* per logging thread: the statement of add_event executed next
  log_event,                 \* per logging thread: add_event's local, the record it builds
  next_id,                   \* history: number of add_event calls started so far
  events_processed,          \* DPSMonitor.stats["events_processed"]
  running,                   \* DPSMonitor.running
  sig_pc,                    \* signal_handler: the statement executed next
  twin_zone,                 \* a second run of execute_actions: its current_zone
  twin_blocked,              \* the second run: its clipboard_blocked
  twin_thread,               \* the second run: its clipboard_monitor_thread
  twin_results,              \* the second run: its results
  clip_pc                    \* per monitor_clipboard thread: where it is in its loop

zoneVars == <<current_zone, ultra_mode_locked, connected_usb_devices>>
clipVars == <<clipboard_blocked, clipboard_monitor_thread>>
winVars  == <<seen_drives, current_drives, new_drives, removed_drives>>
callVars == <<new_zone, reason, old_zone, ret>>
monitorVars == <<platform, current_zone, ultra_mode_locked, connected_usb_devices,
                 zone_transitions, events, clipboard_blocked, clipboard_monitor_thread,
                 seen_drives, current_drives, new_drives, removed_drives,
                 pc, dev, url, new_zone, reason, old_zone, tmp, ret, actions, outcome,
                 accepted, entry, handled, api_entry>>
vars == <<platform, current_zone, ultra_mode_locked, connected_usb_devices,
          zone_transitions, events, clipboard_blocked, clipboard_monitor_thread,
          seen_drives, current_drives, new_drives, removed_drives,
          pc, dev, url, new_zone, reason, old_zone, tmp, ret, actions, outcome,
          accepted, entry, handled, api_entry,
          rules, lastTriggerTimes, clock, dpc, event, candidates, selected, now, last,
          edge, applied, served, fired, action_list, results, invoked, exec_pc,
          actions_executed, conn_error, loaded, config_error, d_actions, d_done, d_pc,
          log_pc, log_event, next_id, events_processed, running, sig_pc,
          twin_zone, twin_blocked, twin_thread, twin_results, clip_pc>>
\* the state of the rule daemon (daemon/daemon.py) and of one execute_actions call
loadVars == <<loaded, config_error>>
daemonVars == <<rules, lastTriggerTimes, clock, dpc, event, candidates, selected, now,
                last, edge, applied, served, fired, conn_error, loadVars>>
execVars == <<action_list, results, invoked, exec_pc, actions_executed>>
\* the state of one applyActions call, of the add_event callers, of the
\* shutdown, and of a second run of execute_actions
dispatchVars == <<d_actions, d_done, d_pc>>
logVars == <<log_pc, log_event, next_id, events_processed>>
shutVars == <<running, sig_pc>>
twinVars == <<twin_zone, twin_blocked, twin_thread, twin_results>>
auxVars == <<dispatchVars, logVars, shutVars, twinVars, clip_pc>>
extVars == <<daemonVars, execVars, auxVars>>

(* ------------------------------ helpers ------------------------------- *)
\* DPSMonitor.add_event: the record (the timestamp is left out), inserted at
\* the front; the oldest record is popped when the log exceeds max_events.
EventRecord(event_type, data, action_taken) ==
  [type |-> event_type, data |-> data, action |-> action_taken, zone |-> current_zone]

Trim(log) == IF Len(log) > max_events THEN SubSeq(log, 1, Len(log) - 1) ELSE log

add_event(event_type, data, action_taken) ==
  events' = Trim(<<EventRecord(event_type, data, action_taken)>> \o events)

\* DPSMonitor.detect_bank_url with the default configuration
detect_bank_url(u) ==
  \/ \E pattern \in financial_keywords : pattern \in u.has
  \/ \E domain \in financial_domains : domain \in u.has
  \/ "https://" \in u.has /\ ({"login", "signin", "account"} \cap u.has) # {}

\* DPSMonitor.lock_clipboard, the part that touches the monitor's state:
\* continuous clearing starts only when the zone is Ultra at that moment.
lock_clipboard_starts == current_zone = "zone3"

\* DPSMonitor.execute_actions: every action of the list is attempted in order
\* and yields one result; lockClipboard may switch continuous clearing on.
execute_actions(t, list) ==
  /\ actions' = [actions EXCEPT ![t] = list]
  /\ IF (\E i \in 1..Len(list) : list[i] = "lockClipboard") /\ lock_clipboard_starts
       THEN /\ clipboard_blocked' = TRUE
            /\ clipboard_monitor_thread' = "Thread"
       ELSE UNCHANGED clipVars

\* DPSMonitor.stop_clipboard_monitor
stop_clipboard_monitor ==
  /\ clipboard_blocked' = FALSE
  /\ clipboard_monitor_thread' = None

Goto(t, label) == pc' = [pc EXCEPT ![t] = label]

\* the call  self.dps_monitor.transition_zone(nz, rs)  made by thread t,
\* returning to statement rt
CallTransition(t, nz, rs, rt) ==
  /\ new_zone' = [new_zone EXCEPT ![t] = nz]
  /\ reason' = [reason EXCEPT ![t] = rs]
  /\ ret' = [ret EXCEPT ![t] = rt]
  /\ old_zone' = old_zone
  /\ Goto(t, "tz340")

\* the return of that call: its arguments and locals go out of scope
ReturnFromTransition(t) ==
  /\ new_zone' = [new_zone EXCEPT ![t] = None]
  /\ reason' = [reason EXCEPT ![t] = None]
  /\ ret' = [ret EXCEPT ![t] = None]
  /\ old_zone' = [old_zone EXCEPT ![t] = None]
  /\ Goto(t, ret[t])

\* the zone state as a handler finds it
NoEntry == [zone |-> None, locked |-> FALSE, devices |-> {}]
ZoneState == [zone |-> current_zone, locked |-> ultra_mode_locked,
              devices |-> connected_usb_devices]

\* the end of an event's handler: the handler's locals go out of scope
EndHandler(t, label) ==
  /\ Goto(t, label)
  /\ entry' = IF t = "usb" THEN NoEntry ELSE entry
  /\ dev' = [dev EXCEPT ![t] = None]
  /\ url' = [url EXCEPT ![t] = None]
  /\ actions' = [actions EXCEPT ![t] = <<>>]
  /\ outcome' = [outcome EXCEPT ![t] = "none"]

\* a thread that is between two events, and the threads that are not
AtRest(t) == pc[t] \in {"idle", "w_init", "w_poll", "w_loop"}
Busy == {t \in Threads : ~AtRest(t)}

\* a handler starts only while fewer than MaxActive handlers are in progress
CanStart == Cardinality(Busy) < MaxActive

\* a thread takes up n new events: the history counter bounds the behaviour
TakeUp(n) ==
  /\ handled + n <= MaxHandled
  /\ handled' = handled + n

\* where the USB thread waits for its next event
UsbHome == IF platform = "Windows" THEN "w_loop" ELSE "idle"
\* the plug handler's action list without lockClipboard
UsbPlugActionsNoClipboard ==
  IF platform = "Windows" THEN <<"notifyUser">>
  ELSE <<"remountHomeRo", "notifyUser">>

\* the action list of the plug handler (Linux line 415, Windows line 477)
UsbPlugActions ==
  IF platform = "Windows" THEN <<"lockClipboard", "notifyUser">>
  ELSE <<"lockClipboard", "remountHomeRo", "notifyUser">>

(* ------------------------------- Init --------------------------------- *)
\* the daemon's connection threads (daemon.py line 24: one thread per connection)
Conns == {"c1", "c2"}
\* time.time() when the daemon starts, in seconds since the epoch: larger
\* than any cooldown, so that  now - 0  is never inside a cooldown window
Epoch == 10
\* an event with no field at all, also the value of an unset event local
NoEvent == [has |-> {}, trigger |-> None, url |-> Url("", {}), deviceClass |-> None]
\* the empty cooldown map
NoTimes == [k \in {} |-> 0]

\* DPSDaemon.__init__ and line 9 of RuleEngine.__init__
DaemonStart ==
  /\ lastTriggerTimes = NoTimes
  /\ clock = Epoch
  /\ dpc = [c \in Conns |-> "accept"]
  /\ event = [c \in Conns |-> NoEvent]
  /\ candidates = [c \in Conns |-> <<>>]
  /\ selected = [c \in Conns |-> 0]
  /\ now = [c \in Conns |-> 0]
  /\ last = [c \in Conns |-> 0]
  /\ edge = [c \in Conns |-> 0]
  /\ applied = [c \in Conns |-> <<>>]
  /\ served = 0
  /\ fired = NoTimes
  /\ conn_error = [c \in Conns |-> FALSE]

\* the daemon started with the edges rs loaded
RuleEngineInit(rs) ==
  /\ rules = rs
  /\ loaded = TRUE
  /\ config_error = FALSE
  /\ DaemonStart

\* the entry of execute_actions(list)
ExecInit(list) ==
  /\ action_list = list
  /\ results = <<>>
  /\ invoked = <<>>
  /\ exec_pc = "e165"
  /\ actions_executed = 0

\* the monitor at rest in the zone state s
MonitorIn(s) ==
  /\ platform \in {"Linux", "Windows"}
  /\ current_zone = s.zone
  /\ ultra_mode_locked = s.locked
  /\ connected_usb_devices = s.devices
  /\ zone_transitions = 0
  /\ events = <<>>
  /\ clipboard_blocked = FALSE
  /\ clipboard_monitor_thread = None
  /\ seen_drives = {}
  /\ current_drives = {}
  /\ new_drives = {}
  /\ removed_drives = {}
  /\ pc = [t \in Threads |-> IF t = "usb" /\ platform = "Windows" THEN "w_init" ELSE "idle"]
  /\ dev = [t \in Threads |-> None]
  /\ url = [t \in Threads |-> None]
  /\ new_zone = [t \in Threads |-> None]
  /\ reason = [t \in Threads |-> None]
  /\ old_zone = [t \in Threads |-> None]
  /\ tmp = [t \in Threads |-> 0]
  /\ ret = [t \in Threads |-> None]
  /\ actions = [t \in Threads |-> <<>>]
  /\ outcome = [t \in Threads |-> "none"]
  /\ accepted = 0
  /\ entry = NoEntry
  /\ handled = 0
  /\ api_entry = NoEntry

\* DPSMonitor.__init__ and the start of the monitors
MonitorInit == MonitorIn([zone |-> "zone1", locked |-> FALSE, devices |-> {}])

\* the zone states a call of execute_actions can start in: the caller has
\* committed its transition before it calls (on_usb_connected, handle_url_event)
EntryStates ==
  { [zone |-> "zone1", locked |-> FALSE, devices |-> {}],
    [zone |-> "zone2", locked |-> FALSE, devices |-> {}],
    [zone |-> "zone3", locked |-> TRUE, devices |-> {"sdb1"}] }

\* the entry of ActionDispatcher.applyActions(list)
DispatchInit(list) ==
  /\ d_actions = list
  /\ d_done = <<>>
  /\ d_pc = "a9"

\* the value of an unset record local
NoRecord == [type |-> None, data |-> 0, action |-> None, zone |-> None]
\* the threads that call add_event
Loggers == {"usb", "url"}

\* no add_event call in progress
LogInit ==
  /\ log_pc = [t \in Loggers |-> "idle"]
  /\ log_event = [t \in Loggers |-> NoRecord]
  /\ next_id = 0
  /\ events_processed = 0

\* DPSMonitor.__init__ line 122: running = True; no signal received yet
ShutInit ==
  /\ running = TRUE
  /\ sig_pc = "wait"

\* no second run of execute_actions
TwinOff ==
  /\ twin_zone = None
  /\ twin_blocked = FALSE
  /\ twin_thread = None
  /\ twin_results = <<>>

\* the monitor_clipboard threads that one run can start
MaxClipThreads == 3
ClipThreads == 1..MaxClipThreads

\* no monitor_clipboard thread has been created
ClipInit == clip_pc = [i \in ClipThreads |-> "unborn"]

\* nothing but the part under study is running
AuxInit(list) == DispatchInit(list) /\ LogInit /\ ShutInit /\ TwinOff /\ ClipInit

\* the monitor application: no rule daemon, no execute_actions call singled out
Init == MonitorInit /\ RuleEngineInit(<<>>) /\ ExecInit(<<>>) /\ AuxInit(<<>>)


(* ------------------- DPSMonitor.transition_zone ----------------------- *)
\* line 340: old_zone = self.current_zone
TzReadOld(t) ==
  /\ pc[t] = "tz340"
  /\ old_zone' = [old_zone EXCEPT ![t] = current_zone]
  /\ Goto(t, "tz343")
  /\ UNCHANGED entry
  /\ UNCHANGED <<extVars, api_entry, platform, zoneVars, zone_transitions, events, clipVars, winVars,
                 dev, url, new_zone, reason, ret, tmp, actions, outcome, accepted, handled>>

\* line 343 with the comparison of new_zone inverted
LockAppliesInverted(t) ==
  ultra_mode_locked /\ old_zone[t] = "zone3" /\ new_zone[t] = "zone3"

\* line 343 without the comparison of new_zone: the lock applies to every request
LockAppliesToAnyRequest(t) ==
  ultra_mode_locked /\ old_zone[t] = "zone3"

\* line 343: the lock applies to a request that leaves Ultra
LockApplies(t) ==
  ultra_mode_locked /\ old_zone[t] = "zone3" /\ new_zone[t] # "zone3"

TzCheckLock(t) ==
  /\ pc[t] = "tz343"
  /\ IF LockApplies(t) THEN Goto(t, "tz344") ELSE Goto(t, "tz353")
  /\ UNCHANGED entry
  /\ UNCHANGED <<extVars, api_entry, platform, zoneVars, zone_transitions, events, clipVars, winVars,
                 dev, url, callVars, tmp, actions, outcome, accepted, handled>>

\* line 344: if self.connected_usb_devices
TzCheckDevices(t) ==
  /\ pc[t] = "tz344"
  /\ IF connected_usb_devices # {} THEN Goto(t, "tz345") ELSE Goto(t, "tz353")
  /\ UNCHANGED entry
  /\ UNCHANGED <<extVars, api_entry, platform, zoneVars, zone_transitions, events, clipVars, winVars,
                 dev, url, callVars, tmp, actions, outcome, accepted, handled>>

\* lines 345-351: log the blocked request and return
BlockedData(t) ==
  [attempted_from |-> old_zone[t], attempted_to |-> new_zone[t],
   reason |-> "Ultra mode locked - USB devices still connected",
   connected_devices |-> connected_usb_devices]

TzBlock(t) ==
  /\ pc[t] = "tz345"
  /\ add_event("zone_transition_blocked", BlockedData(t), None)
  /\ outcome' = [outcome EXCEPT ![t] = "blocked"]
  /\ ReturnFromTransition(t)
  /\ UNCHANGED entry
  /\ UNCHANGED <<extVars, api_entry, platform, zoneVars, zone_transitions, clipVars, winVars,
                 dev, url, tmp, actions, accepted, handled>>

\* line 353: self.current_zone = new_zone (the request is accepted)
TzWriteZone(t) ==
  /\ pc[t] = "tz353"
  /\ current_zone' = new_zone[t]
  /\ accepted' = accepted + 1
  /\ outcome' = [outcome EXCEPT ![t] = "accepted"]
  /\ Goto(t, "tz354")
  /\ UNCHANGED entry
  /\ UNCHANGED <<extVars, api_entry, platform, ultra_mode_locked, connected_usb_devices, zone_transitions,
                 events, clipVars, winVars, dev, url, callVars, tmp, actions, handled>>

\* line 354: self.stats["zone_transitions"] += 1 -- the read ...
TzReadCounter(t) ==
  /\ pc[t] = "tz354"
  /\ tmp' = [tmp EXCEPT ![t] = zone_transitions]
  /\ Goto(t, "tz354w")
  /\ UNCHANGED entry
  /\ UNCHANGED <<extVars, api_entry, platform, zoneVars, zone_transitions, events, clipVars, winVars,
                 dev, url, callVars, actions, outcome, accepted, handled>>

\* ... and the write of the incremented value
Incremented(n) == n + 1

TzWriteCounter(t) ==
  /\ pc[t] = "tz354w"
  /\ zone_transitions' = Incremented(tmp[t])
  /\ tmp' = [tmp EXCEPT ![t] = 0]
  /\ Goto(t, "tz355")
  /\ UNCHANGED entry
  /\ UNCHANGED <<extVars, api_entry, platform, zoneVars, events, clipVars, winVars,
                 dev, url, callVars, actions, outcome, accepted, handled>>

\* lines 355-359: the zone_transition record
TransitionData(t) == [from |-> old_zone[t], to |-> new_zone[t], reason |-> reason[t]]

TzLog(t) ==
  /\ pc[t] = "tz355"
  /\ add_event("zone_transition", TransitionData(t), None)
  /\ Goto(t, "tz361")
  /\ UNCHANGED entry
  /\ UNCHANGED <<extVars, api_entry, platform, zoneVars, zone_transitions, clipVars, winVars,
                 dev, url, callVars, tmp, actions, outcome, accepted, handled>>

\* lines 361-367 without lines 362-364: entering Ultra does not switch the
\* clearing on
TzClipboardNoStart(t) ==
  /\ pc[t] = "tz361"
  /\ IF new_zone[t] # "zone3" /\ old_zone[t] = "zone3"
       THEN stop_clipboard_monitor
       ELSE UNCHANGED clipVars
  /\ ReturnFromTransition(t)
  /\ UNCHANGED entry
  /\ UNCHANGED <<extVars, api_entry, platform, zoneVars, zone_transitions, events, winVars,
                 dev, url, tmp, actions, outcome, accepted, handled>>

\* lines 361-367: continuous clipboard clearing follows the zone; return
TzClipboard(t) ==
  /\ pc[t] = "tz361"
  /\ IF new_zone[t] = "zone3"
       THEN /\ clipboard_blocked' = TRUE
            /\ clipboard_monitor_thread' = "Thread"
       ELSE IF old_zone[t] = "zone3"
              THEN stop_clipboard_monitor
              ELSE UNCHANGED clipVars
  /\ ReturnFromTransition(t)
  /\ UNCHANGED entry
  /\ UNCHANGED <<extVars, api_entry, platform, zoneVars, zone_transitions, events, winVars,
                 dev, url, tmp, actions, outcome, accepted, handled>>

InTransition(t) ==
  pc[t] \in {"tz340", "tz343", "tz344", "tz345", "tz353", "tz354", "tz354w", "tz355", "tz361"}



(* ---------------- USBMonitor: the plug and removal handlers ------------ *)
PluggedInfo(d) == [device |-> d, deviceClass |-> "mass_storage", action |-> "plugged"]
RemovedInfo(d) == [device |-> d, deviceClass |-> "mass_storage", action |-> "removed"]

\* Linux lines 397-399: a udev 'add' event; the device becomes a witness
UsbAdd ==
  /\ CanStart
  /\ platform = "Linux" /\ pc["usb"] = "idle"
  /\ TakeUp(1)
  /\ \E d \in Devices :
       /\ dev' = [dev EXCEPT !["usb"] = d]
       /\ connected_usb_devices' = connected_usb_devices \cup {d}
  /\ Goto("usb", "p408")
  /\ entry' = ZoneState
  /\ UNCHANGED <<extVars, api_entry, platform, current_zone, ultra_mode_locked, zone_transitions, events,
                 clipVars, winVars, url, callVars, tmp, actions, outcome, accepted>>

\* Linux lines 418-419: a udev 'remove' event
UsbRemove ==
  /\ CanStart
  /\ platform = "Linux" /\ pc["usb"] = "idle"
  /\ TakeUp(1)
  /\ \E d \in Devices : dev' = [dev EXCEPT !["usb"] = d]
  /\ Goto("usb", "r420")
  /\ entry' = ZoneState
  /\ UNCHANGED <<extVars, api_entry, platform, zoneVars, zone_transitions, events,
                 clipVars, winVars, url, callVars, tmp, actions, outcome, accepted>>

\* line 420 (483) without the test: every removal is handled as that of a witness
UsbCheckTrackedAlways ==
  /\ pc["usb"] = "r420"
  /\ Goto("usb", "r421")
  /\ UNCHANGED <<extVars, api_entry, platform, zoneVars, zone_transitions, events,
                 clipVars, winVars, dev, url, callVars, tmp, actions, outcome,
                 accepted, entry, handled>>

\* line 420 (483): if device_id in connected_usb_devices; the removal of an
\* untracked device ends here
UsbCheckTracked ==
  /\ pc["usb"] = "r420"
  /\ IF dev["usb"] \in connected_usb_devices
       THEN Goto("usb", "r421") /\ UNCHANGED <<dev, url, actions, outcome, entry>>
       ELSE EndHandler("usb", UsbHome)
  /\ UNCHANGED <<extVars, api_entry, platform, zoneVars, zone_transitions, events,
                 clipVars, winVars, callVars, tmp, accepted, handled>>

\* Windows lines 445-450: the drives present at start are recorded as seen
\* and added to connected_usb_devices
WinInit ==
  /\ platform = "Windows" /\ pc["usb"] = "w_init"
  /\ \E S \in SUBSET Devices :
       /\ seen_drives' = S
       /\ connected_usb_devices' = connected_usb_devices \cup S
  /\ Goto("usb", "w_poll")
  /\ UNCHANGED entry
  /\ UNCHANGED <<extVars, api_entry, platform, current_zone, ultra_mode_locked, zone_transitions, events,
                 clipVars, current_drives, new_drives, removed_drives,
                 dev, url, callVars, tmp, actions, outcome, accepted, handled>>

\* Windows lines 454-460 and 481: one poll of the removable drives
WinPoll ==
  /\ platform = "Windows" /\ pc["usb"] = "w_poll"
  /\ \E C \in SUBSET Devices :
       /\ C # seen_drives
       /\ TakeUp(Cardinality(C \ seen_drives) + Cardinality(seen_drives \ C))
       /\ current_drives' = C
       /\ new_drives' = C \ seen_drives
       /\ removed_drives' = seen_drives \ C
  /\ Goto("usb", "w_loop")
  /\ UNCHANGED entry
  /\ UNCHANGED <<extVars, api_entry, platform, zoneVars, zone_transitions, events, clipVars, seen_drives,
                 dev, url, callVars, tmp, actions, outcome, accepted>>

\* Windows lines 461-462: the next new drive becomes a witness
WinNextNew ==
  /\ CanStart
  /\ platform = "Windows" /\ pc["usb"] = "w_loop" /\ new_drives # {}
  /\ \E d \in new_drives :
       /\ new_drives' = new_drives \ {d}
       /\ dev' = [dev EXCEPT !["usb"] = d]
       /\ connected_usb_devices' = connected_usb_devices \cup {d}
  /\ Goto("usb", "p408")
  /\ entry' = ZoneState
  /\ UNCHANGED <<extVars, api_entry, platform, current_zone, ultra_mode_locked, zone_transitions, events,
                 clipVars, seen_drives, current_drives, removed_drives,
                 url, callVars, tmp, actions, outcome, accepted, handled>>

\* Windows line 482: the next removed drive
WinNextRemoved ==
  /\ CanStart
  /\ platform = "Windows" /\ pc["usb"] = "w_loop" /\ new_drives = {} /\ removed_drives # {}
  /\ \E d \in removed_drives :
       /\ removed_drives' = removed_drives \ {d}
       /\ dev' = [dev EXCEPT !["usb"] = d]
  /\ Goto("usb", "r420")
  /\ entry' = ZoneState
  /\ UNCHANGED <<extVars, api_entry, platform, zoneVars, zone_transitions, events,
                 clipVars, seen_drives, current_drives, new_drives,
                 url, callVars, tmp, actions, outcome, accepted, handled>>

\* Windows lines 501-502: seen_drives = current_drives, then the next poll
WinEndPoll ==
  /\ platform = "Windows" /\ pc["usb"] = "w_loop" /\ new_drives = {} /\ removed_drives = {}
  /\ seen_drives' = current_drives
  /\ current_drives' = {}
  /\ Goto("usb", "w_poll")
  /\ UNCHANGED entry
  /\ UNCHANGED <<extVars, api_entry, platform, zoneVars, zone_transitions, events, clipVars,
                 new_drives, removed_drives,
                 dev, url, callVars, tmp, actions, outcome, accepted, handled>>

\* lines 408-411 (470-473): log usb_plugged, then call transition_zone("zone3", ...)
UsbLogPlugged ==
  /\ pc["usb"] = "p408"
  /\ add_event("usb_plugged", PluggedInfo(dev["usb"]), None)
  /\ CallTransition("usb", "zone3", <<"USB device plugged", dev["usb"]>>, "p412")
  /\ UNCHANGED entry
  /\ UNCHANGED <<extVars, api_entry, platform, zoneVars, zone_transitions, clipVars, winVars,
                 dev, url, tmp, actions, outcome, accepted, handled>>

\* line 412 (474): self.dps_monitor.ultra_mode_locked = True
UsbSetLocked ==
  /\ pc["usb"] = "p412"
  /\ ultra_mode_locked' = TRUE
  /\ Goto("usb", "p415")
  /\ UNCHANGED entry
  /\ UNCHANGED <<extVars, api_entry, platform, current_zone, connected_usb_devices, zone_transitions, events,
                 clipVars, winVars, dev, url, callVars, tmp, actions, outcome,
                 accepted, entry, handled>>

\* line 415 (477): execute_actions([...])
UsbExecuteActions ==
  /\ pc["usb"] = "p415"
  /\ execute_actions("usb", UsbPlugActions)
  /\ Goto("usb", "p416")
  /\ UNCHANGED entry
  /\ UNCHANGED <<extVars, api_entry, platform, zoneVars, zone_transitions, events, winVars,
                 dev, url, callVars, tmp, outcome, accepted, handled>>

\* line 416 (478): log security_lockdown; the plug handler is done
UsbLogLockdown ==
  /\ pc["usb"] = "p416"
  /\ add_event("security_lockdown", [reason |-> "USB detected", actions |-> actions["usb"]], None)
  /\ EndHandler("usb", UsbHome)
  /\ UNCHANGED <<extVars, api_entry, platform, zoneVars, zone_transitions, clipVars, winVars,
                 callVars, tmp, accepted, handled>>

\* line 421 (484): connected_usb_devices.remove(device_id)
UsbRemoveDevice ==
  /\ pc["usb"] = "r421"
  /\ connected_usb_devices' = connected_usb_devices \ {dev["usb"]}
  /\ Goto("usb", "r429")
  /\ UNCHANGED entry
  /\ UNCHANGED <<extVars, api_entry, platform, current_zone, ultra_mode_locked, zone_transitions, events,
                 clipVars, winVars, dev, url, callVars, tmp, actions, outcome,
                 accepted, entry, handled>>

\* line 429 (492): log usb_removed
UsbLogRemoved ==
  /\ pc["usb"] = "r429"
  /\ add_event("usb_removed", RemovedInfo(dev["usb"]), None)
  /\ Goto("usb", "r432")
  /\ UNCHANGED entry
  /\ UNCHANGED <<extVars, api_entry, platform, zoneVars, zone_transitions, clipVars, winVars,
                 dev, url, callVars, tmp, actions, outcome, accepted, handled>>

\* line 432 (495) without the test: every removal clears the lock
UsbCheckEmptyAlways ==
  /\ pc["usb"] = "r432"
  /\ Goto("usb", "r433") /\ UNCHANGED <<dev, url, actions, outcome, entry>>
  /\ UNCHANGED <<extVars, api_entry, platform, zoneVars, zone_transitions, events, clipVars, winVars,
                 callVars, tmp, accepted, handled>>

\* line 432 (495): if not connected_usb_devices
UsbCheckEmpty ==
  /\ pc["usb"] = "r432"
  /\ IF connected_usb_devices = {}
       THEN Goto("usb", "r433") /\ UNCHANGED <<dev, url, actions, outcome, entry>>
       ELSE EndHandler("usb", UsbHome)
  /\ UNCHANGED <<extVars, api_entry, platform, zoneVars, zone_transitions, events, clipVars, winVars,
                 callVars, tmp, accepted, handled>>

\* line 433 (496): self.dps_monitor.ultra_mode_locked = False
UsbClearLock ==
  /\ pc["usb"] = "r433"
  /\ ultra_mode_locked' = FALSE
  /\ Goto("usb", "r434")
  /\ UNCHANGED entry
  /\ UNCHANGED <<extVars, api_entry, platform, current_zone, connected_usb_devices, zone_transitions, events,
                 clipVars, winVars, dev, url, callVars, tmp, actions, outcome,
                 accepted, entry, handled>>

\* lines 434-435 (497-498): stop_clipboard_monitor(), then call
\* transition_zone("zone1", ...)
UsbStopClipboard ==
  /\ pc["usb"] = "r434"
  /\ stop_clipboard_monitor
  /\ CallTransition("usb", "zone1", "All USB devices removed - returning to Normal", "r436")
  /\ UNCHANGED entry
  /\ UNCHANGED <<extVars, api_entry, platform, zoneVars, zone_transitions, events, winVars,
                 dev, url, tmp, actions, outcome, accepted, handled>>

\* line 436 (499): log security_unlock; the removal handler is done
UsbLogUnlock ==
  /\ pc["usb"] = "r436"
  /\ add_event("security_unlock", [reason |-> "No USB devices connected"], None)
  /\ EndHandler("usb", UsbHome)
  /\ UNCHANGED <<extVars, api_entry, platform, zoneVars, zone_transitions, clipVars, winVars,
                 callVars, tmp, accepted, handled>>



(* ------------------- ProcessMonitor.start_monitoring ------------------- *)
\* lines 585-597: a new sensitive process is logged, then
\* transition_zone("zone2", ...) is called; nothing follows the call
ProcDetected ==
  /\ CanStart
  /\ pc["proc"] = "idle"
  /\ TakeUp(1)
  /\ add_event("sensitive_process", [name |-> "firefox"], None)
  /\ CallTransition("proc", "zone2", <<"Sensitive process", "firefox">>, "idle")
  /\ outcome' = [outcome EXCEPT !["proc"] = "none"]
  /\ UNCHANGED entry
  /\ UNCHANGED <<extVars, api_entry, platform, zoneVars, zone_transitions, clipVars, winVars,
                 dev, url, tmp, actions, accepted>>

(* --------------------- URLMonitor.start_monitoring --------------------- *)
\* the list of lines 671 and 743 without notifyUser
UrlActionsNoNotify == <<"enableVpn", "lockClipboard">>

\* lines 671 and 743: the action list of a bank URL
UrlActions == <<"enableVpn", "lockClipboard", "notifyUser">>

\* lines 660-666: a URL that detect_bank_url accepts is logged
UrlDetected ==
  /\ CanStart
  /\ pc["url"] = "idle"
  /\ TakeUp(1)
  /\ \E u \in Urls :
       /\ detect_bank_url(u)
       /\ url' = [url EXCEPT !["url"] = u.text]
       /\ add_event("bank_url_detected", [url |-> u.text], None)
  /\ Goto("url", "u669")
  /\ UNCHANGED entry
  /\ UNCHANGED <<extVars, api_entry, platform, zoneVars, zone_transitions, clipVars, winVars,
                 dev, callVars, tmp, actions, outcome, accepted>>

\* lines 669-670: the transition is requested only when the lock is not set;
\* under the lock the event is dropped without a record
UrlCheckLock ==
  /\ pc["url"] = "u669"
  /\ IF ~ultra_mode_locked
       THEN /\ CallTransition("url", "zone2", <<"Bank URL detected", url["url"]>>, "u671")
            /\ UNCHANGED <<dev, url, actions, outcome, entry>>
       ELSE /\ EndHandler("url", "idle")
            /\ UNCHANGED callVars
  /\ UNCHANGED <<extVars, api_entry, platform, zoneVars, zone_transitions, events, clipVars, winVars,
                 tmp, accepted, handled>>

\* line 671: execute_actions(["enableVpn", "lockClipboard", "notifyUser"])
UrlExecuteActions ==
  /\ pc["url"] = "u671"
  /\ execute_actions("url", UrlActions)
  /\ Goto("url", "u672")
  /\ UNCHANGED entry
  /\ UNCHANGED <<extVars, api_entry, platform, zoneVars, zone_transitions, events, winVars,
                 dev, url, callVars, tmp, outcome, accepted, handled>>

\* line 672: log bank_security_activated; the handler is done
UrlLogActivated ==
  /\ pc["url"] = "u672"
  /\ add_event("bank_security_activated", [url |-> url["url"], actions |-> actions["url"]], None)
  /\ EndHandler("url", "idle")
  /\ UNCHANGED <<extVars, api_entry, platform, zoneVars, zone_transitions, clipVars, winVars,
                 callVars, tmp, accepted, handled>>


(* -------------------------- api_simulate_event ------------------------- *)
ApiUsbActions == <<"lockClipboard", "notifyUser">>

\* lines 730-733: type 'usb': the device is added to connected_usb_devices,
\* then transition_zone("zone3", ...) is called
ApiUsbRequest ==
  /\ CanStart
  /\ pc["api"] = "idle"
  /\ TakeUp(1)
  /\ \E d \in ApiDevices :
       /\ dev' = [dev EXCEPT !["api"] = d]
       /\ connected_usb_devices' = connected_usb_devices \cup {d}
  /\ CallTransition("api", "zone3", "Simulated USB event", "a734")
  /\ UNCHANGED entry
  /\ UNCHANGED <<extVars, api_entry, platform, current_zone, ultra_mode_locked, zone_transitions, events,
                 clipVars, winVars, url, tmp, actions, outcome, accepted>>

\* line 734: dps_monitor.ultra_mode_locked = True
ApiSetLocked ==
  /\ pc["api"] = "a734"
  /\ ultra_mode_locked' = TRUE
  /\ Goto("api", "a735")
  /\ UNCHANGED entry
  /\ UNCHANGED <<extVars, api_entry, platform, current_zone, connected_usb_devices, zone_transitions, events,
                 clipVars, winVars, dev, url, callVars, tmp, actions, outcome,
                 accepted, entry, handled>>

\* line 735: execute_actions(["lockClipboard", "notifyUser"])
ApiUsbExecute ==
  /\ pc["api"] = "a735"
  /\ execute_actions("api", ApiUsbActions)
  /\ Goto("api", "a736")
  /\ UNCHANGED entry
  /\ UNCHANGED <<extVars, api_entry, platform, zoneVars, zone_transitions, events, winVars,
                 dev, url, callVars, tmp, outcome, accepted, handled>>

\* line 736: log simulated_usb with the action results; the request is done
ApiUsbLog ==
  /\ pc["api"] = "a736"
  /\ add_event("simulated_usb", [device |-> dev["api"]], actions["api"])
  /\ EndHandler("api", "idle")
  /\ UNCHANGED <<extVars, api_entry, platform, zoneVars, zone_transitions, clipVars, winVars,
                 callVars, tmp, accepted, handled>>

\* lines 737-742: type 'url': for a URL that detect_bank_url accepts the
\* transition is requested only when the lock is not set; any other URL
\* ends the request at once
ApiUrlRequest ==
  /\ CanStart
  /\ pc["api"] = "idle"
  /\ TakeUp(1)
  /\ \E u \in Urls :
       IF detect_bank_url(u)
         THEN /\ url' = [url EXCEPT !["api"] = u.text]
              /\ IF ~ultra_mode_locked
                   THEN CallTransition("api", "zone2", <<"Simulated bank URL", u.text>>, "a743")
                   ELSE Goto("api", "a743") /\ UNCHANGED callVars
         ELSE UNCHANGED <<url, pc, callVars>>
  /\ api_entry' = IF pc'["api"] # "idle" THEN ZoneState ELSE NoEntry
  /\ UNCHANGED entry
  /\ UNCHANGED <<extVars, platform, zoneVars, zone_transitions, events, clipVars, winVars,
                 dev, tmp, actions, outcome, accepted>>

\* line 743: execute_actions([...]) -- outside the test of the lock
ApiUrlExecute ==
  /\ pc["api"] = "a743"
  /\ execute_actions("api", UrlActions)
  /\ Goto("api", "a744")
  /\ UNCHANGED entry
  /\ UNCHANGED <<extVars, api_entry, platform, zoneVars, zone_transitions, events, winVars,
                 dev, url, callVars, tmp, outcome, accepted, handled>>

\* line 744: log simulated_bank_url with the action results
ApiUrlLog ==
  /\ pc["api"] = "a744"
  /\ add_event("simulated_bank_url", [url |-> url["api"]], actions["api"])
  /\ EndHandler("api", "idle")
  /\ api_entry' = NoEntry
  /\ UNCHANGED <<extVars, platform, zoneVars, zone_transitions, clipVars, winVars,
                 callVars, tmp, accepted, handled>>


(* ------------------- the rule daemon: rules and events ------------------ *)
\* An edge of the rule document.  has names the optional fields the edge
\* carries; a field it does not carry is read with its default.
Rule(trigger, fromZone, has, urlPattern, deviceClass, priority, cooldownSeconds, acts) ==
  [trigger |-> trigger, fromZone |-> fromZone, has |-> has, urlPattern |-> urlPattern,
   deviceClass |-> deviceClass, priority |-> priority,
   cooldownSeconds |-> cooldownSeconds, actions |-> acts]

\* the edges rule documents are made of
RulePool ==
  { Rule("openSensitiveUrl", "zone1", {"urlPattern", "priority"},
         <<"*.bank.com">>, {}, 2, 0, <<"enableVpn", "lockClipboard">>),
    Rule("openSensitiveUrl", "*", {"priority", "cooldownSeconds"},
         <<>>, {}, 3, 2, <<"lockClipboard">>),
    Rule("usbPlugged", "zone1", {"deviceClass", "cooldownSeconds"},
         <<>>, {"mass_storage"}, 0, 2, <<"remountHomeRo", "notifyUser">>),
    Rule("usbPlugged", "zone2", {"priority"},
         <<>>, {}, 0, 0, <<"lockClipboard">>) }

RECURSIVE SeqsUpTo(_, _)
SeqsUpTo(S, n) ==
  IF n = 0 THEN {<<>>}
  ELSE LET shorter == SeqsUpTo(S, n - 1)
       IN shorter \cup {Append(q, x) : q \in shorter, x \in S}

\* the rule documents: one to MaxRules edges in any declaration order
RuleSets == SeqsUpTo(RulePool, MaxRules) \ {<<>>}

\* An event as the daemon decodes it; has names the fields the JSON object
\* carries (event.get and  'url' in event  look at nothing else).
Event(has, trigger, u, deviceClass) ==
  [has |-> has, trigger |-> trigger, url |-> u, deviceClass |-> deviceClass]

\* the events of simulate_events.py, the malformed ones included
DaemonEvents ==
  { Event({"trigger", "url"}, "openSensitiveUrl", BankUrl, None),
    Event({"trigger", "url"}, "openSensitiveUrl", PlainUrl, None),
    Event({"trigger"}, "openSensitiveUrl", Url("", {}), None),
    Event({"trigger", "device"}, "usbPlugged", Url("", {}), "mass_storage"),
    Event({"trigger", "device"}, "usbPlugged", Url("", {}), "input"),
    Event({"trigger"}, "usbPlugged", Url("", {}), None),
    Event({"trigger"}, "unknown_trigger", Url("", {}), None),
    Event({}, None, Url("", {}), None) }

(* ------------------------- RuleEngine.evaluate -------------------------- *)
\* line 20: pat.replace('*', '')
StripStar(pat) == IF pat = "*.bank.com" THEN ".bank.com" ELSE pat

\* lines 15-21: the edge is kept as a candidate for the event
Matches(r, e) ==
  /\ "trigger" \in e.has /\ r.trigger = e.trigger
  /\ ("urlPattern" \in r.has /\ "url" \in e.has) =>
       \E i \in 1..Len(r.urlPattern) : StripStar(r.urlPattern[i]) \in e.url.has

\* lines 13-22: the positions of the candidates, in declaration order
Candidates(e) ==
  SelectSeq([i \in 1..Len(rules) |-> i], LAMBDA i : Matches(rules[i], e))

\* line 24: e.get('priority', 0)
Priority(i) == IF "priority" \in rules[i].has THEN rules[i].priority ELSE 0

\* an insertion that puts an edge before the edges of equal priority
InsertBeforeEqual(i, s) ==
  LET k == Cardinality({j \in 1..Len(s) : Priority(s[j]) > Priority(i)})
  IN SubSeq(s, 1, k) \o <<i>> \o SubSeq(s, k + 1, Len(s))

\* line 24: list.sort(key, reverse=True) is stable: an edge goes after the
\* edges of greater or equal priority that precede it
Insert(i, s) ==
  LET k == Cardinality({j \in 1..Len(s) : Priority(s[j]) >= Priority(i)})
  IN SubSeq(s, 1, k) \o <<i>> \o SubSeq(s, k + 1, Len(s))

RECURSIVE SortedByPriority(_)
SortedByPriority(s) ==
  IF s = <<>> THEN <<>>
  ELSE Insert(s[Len(s)], SortedByPriority(SubSeq(s, 1, Len(s) - 1)))

\* line 27: selected.get('trigger') + json.dumps(selected.get('conditions', {}))
Key(r) ==
  <<r.trigger, r.has \cap {"urlPattern", "deviceClass"}, r.urlPattern, r.deviceClass>>

\* an engine that gives an edge without cooldownSeconds a cooldown of 2 s
CooldownOrDefault(r) == IF "cooldownSeconds" \in r.has THEN r.cooldownSeconds ELSE 2

\* line 29: selected.get('cooldownSeconds'), 0 when absent
Cooldown(r) == IF "cooldownSeconds" \in r.has THEN r.cooldownSeconds ELSE 0

\* line 30: self.lastTriggerTimes.get(key, 0)
LastTime(key) == IF key \in DOMAIN lastTriggerTimes THEN lastTriggerTimes[key] ELSE 0

\* line 31: now - last < selected['cooldownSeconds']
InWindow(n, l, c) == n - l < c

\* a fall-through to the second candidate
NextCandidate(c) == IF Len(candidates[c]) > 1 THEN candidates[c][2] ELSE 0

\* line 32: return None (position 0 stands for None)
Suppressed(c) == 0

(* ----------------------- DPSDaemon.handle_conn ------------------------- *)
DGoto(c, label) == dpc' = [dpc EXCEPT ![c] = label]

\* evaluate returns r (a position in rules, 0 for None) to handle_conn
Return(c, r) ==
  /\ edge' = [edge EXCEPT ![c] = r]
  /\ fired' = IF r # 0 /\ Cooldown(rules[r]) # 0
               THEN [k \in DOMAIN fired \cup {Key(rules[r])} |->
                       IF k = Key(rules[r]) THEN now[c] ELSE fired[k]]
               ELSE fired
  /\ DGoto(c, "h32")

\* line 15: edge['trigger'] raises KeyError on an edge that has no trigger
HasTrigger(r) == r.trigger # None

\* daemon.py lines 35-36: an exception raised under handle_conn's try is
\* caught and printed, and the connection closed
Raise(c) ==
  /\ conn_error' = [conn_error EXCEPT ![c] = TRUE]
  /\ DGoto(c, "h38")

\* the data that do not decode to a JSON object
Undecodable == {"not_json", "not_object"}

\* daemon.py lines 22-24 and 28-31: a connection is accepted and data received
\* that are not a JSON object.  json.loads raises on data that are not JSON
\* (line 29); other JSON is passed to evaluate, where event.get raises
\* AttributeError at the first edge (ruleEngine.py line 15), and which
\* returns None when there is no edge.
DMalformed(c) ==
  /\ dpc[c] = "accept"
  /\ served < MaxServed
  /\ served' = served + 1
  /\ \E kind \in Undecodable :
       IF kind = "not_object" /\ rules = <<>>
         THEN DGoto(c, "h32") /\ UNCHANGED conn_error
         ELSE Raise(c)
  /\ UNCHANGED <<rules, lastTriggerTimes, clock, event, candidates, selected, now, last,
                 edge, applied, fired>>
  /\ UNCHANGED <<monitorVars, execVars, auxVars, loadVars>>

\* daemon.py lines 22-24 and 28-30: a connection is accepted, its thread
\* started, the event received and decoded
DAccept(c) ==
  /\ dpc[c] = "accept"
  /\ served < MaxServed
  /\ served' = served + 1
  /\ \E e \in DaemonEvents : event' = [event EXCEPT ![c] = e]
  /\ DGoto(c, "e13")
  /\ UNCHANGED <<rules, lastTriggerTimes, clock, candidates, selected, now, last,
                 edge, applied, fired>>
  /\ UNCHANGED <<monitorVars, execVars, auxVars, loadVars, conn_error>>

\* ruleEngine.py lines 13-25: the candidates are collected and sorted;
\* without a candidate evaluate returns None, else the first one is selected
DSelect(c) ==
  /\ dpc[c] = "e13"
  /\ IF \E i \in 1..Len(rules) : ~HasTrigger(rules[i])
       THEN Raise(c) /\ UNCHANGED <<candidates, selected, edge, fired>>
       ELSE /\ candidates' = [candidates EXCEPT ![c] = SortedByPriority(Candidates(event[c]))]
            /\ IF candidates'[c] = <<>>
                 THEN Return(c, 0) /\ UNCHANGED selected
                 ELSE /\ selected' = [selected EXCEPT ![c] = candidates'[c][1]]
                      /\ DGoto(c, "e28")
                      /\ UNCHANGED <<edge, fired>>
            /\ UNCHANGED conn_error
  /\ UNCHANGED <<rules, lastTriggerTimes, clock, event, now, last, applied, served>>
  /\ UNCHANGED <<monitorVars, execVars, auxVars, loadVars>>

\* lines 27-28 without the test of line 29: every edge goes on to the cooldown
DReadNowUnguarded(c) ==
  /\ dpc[c] = "e28"
  /\ now' = [now EXCEPT ![c] = clock]
  /\ DGoto(c, "e30") /\ UNCHANGED <<edge, fired>>
  /\ UNCHANGED <<rules, lastTriggerTimes, clock, event, candidates, selected, last,
                 applied, served>>
  /\ UNCHANGED <<monitorVars, execVars, auxVars, loadVars, conn_error>>

\* lines 27-29 and 34: now = time.time(); an edge without a cooldown is returned
DReadNow(c) ==
  /\ dpc[c] = "e28"
  /\ now' = [now EXCEPT ![c] = clock]
  /\ IF Cooldown(rules[selected[c]]) # 0
       THEN DGoto(c, "e30") /\ UNCHANGED <<edge, fired>>
       ELSE Return(c, selected[c])
  /\ UNCHANGED <<rules, lastTriggerTimes, clock, event, candidates, selected, last,
                 applied, served>>
  /\ UNCHANGED <<monitorVars, execVars, auxVars, loadVars, conn_error>>

\* line 30: last = self.lastTriggerTimes.get(key, 0)
DReadLast(c) ==
  /\ dpc[c] = "e30"
  /\ last' = [last EXCEPT ![c] = LastTime(Key(rules[selected[c]]))]
  /\ DGoto(c, "e31")
  /\ UNCHANGED <<rules, lastTriggerTimes, clock, event, candidates, selected, now,
                 edge, applied, served, fired>>
  /\ UNCHANGED <<monitorVars, execVars, auxVars, loadVars, conn_error>>

\* lines 31-32: inside the cooldown window evaluate returns None
DCheckCooldown(c) ==
  /\ dpc[c] = "e31"
  /\ IF InWindow(now[c], last[c], Cooldown(rules[selected[c]]))
       THEN Return(c, Suppressed(c))
       ELSE DGoto(c, "e33") /\ UNCHANGED <<edge, fired>>
  /\ UNCHANGED <<rules, lastTriggerTimes, clock, event, candidates, selected, now,
                 last, applied, served>>
  /\ UNCHANGED <<monitorVars, execVars, auxVars, loadVars, conn_error>>

\* lines 33-34 without the assignment to lastTriggerTimes
DRecordNoWrite(c) ==
  /\ dpc[c] = "e33"
  /\ Return(c, selected[c])
  /\ UNCHANGED <<rules, lastTriggerTimes, clock, event, candidates, selected, now, last,
                 applied, served>>
  /\ UNCHANGED <<monitorVars, execVars, auxVars, loadVars, conn_error>>

\* lines 33-34: self.lastTriggerTimes[key] = now; return selected
DRecord(c) ==
  /\ dpc[c] = "e33"
  /\ LET key == Key(rules[selected[c]])
     IN lastTriggerTimes' =
          [k \in DOMAIN lastTriggerTimes \cup {key} |->
             IF k = key THEN now[c] ELSE lastTriggerTimes[k]]
  /\ Return(c, selected[c])
  /\ UNCHANGED <<rules, clock, event, candidates, selected, now, last, applied, served>>
  /\ UNCHANGED <<monitorVars, execVars, auxVars, loadVars, conn_error>>

\* actionDispatcher.py lines 27-30: lockClipboard calls subprocess.Popen
\* outside any try, the other methods catch what their command raises
CanRaise(action) == action = "lockClipboard"

\* daemon.py lines 32-34: if edge: applyActions(edge.get('actions', []))
\* and lines 35-36: what lockClipboard's Popen raises ends applyActions
DApply(c) ==
  /\ dpc[c] = "h32"
  /\ applied' = [applied EXCEPT ![c] = IF edge[c] # 0 THEN rules[edge[c]].actions ELSE <<>>]
  /\ \/ DGoto(c, "h38") /\ UNCHANGED conn_error
     \/ /\ \E i \in 1..Len(applied'[c]) : CanRaise(applied'[c][i])
        /\ Raise(c)
  /\ UNCHANGED <<rules, lastTriggerTimes, clock, event, candidates, selected, now,
                 last, edge, served, fired>>
  /\ UNCHANGED <<monitorVars, execVars, auxVars, loadVars>>

\* daemon.py lines 37-38: conn.close(); the thread ends with its locals
DClose(c) ==
  /\ dpc[c] = "h38"
  /\ conn_error' = [conn_error EXCEPT ![c] = FALSE]
  /\ event' = [event EXCEPT ![c] = NoEvent]
  /\ candidates' = [candidates EXCEPT ![c] = <<>>]
  /\ selected' = [selected EXCEPT ![c] = 0]
  /\ now' = [now EXCEPT ![c] = 0]
  /\ last' = [last EXCEPT ![c] = 0]
  /\ edge' = [edge EXCEPT ![c] = 0]
  /\ applied' = [applied EXCEPT ![c] = <<>>]
  /\ DGoto(c, "accept")
  /\ UNCHANGED <<rules, lastTriggerTimes, clock, served, fired>>
  /\ UNCHANGED <<monitorVars, execVars, auxVars, loadVars>>

\* a second passes on the clock time.time() reads
Tick ==
  /\ clock < Epoch + MaxTicks
  /\ clock' = clock + 1
  /\ UNCHANGED <<rules, lastTriggerTimes, dpc, event, candidates, selected, now, last,
                 edge, applied, served, fired>>
  /\ UNCHANGED <<monitorVars, execVars, auxVars, loadVars, conn_error>>

\* a connection thread is inside RuleEngine.evaluate
InEvaluate(c) == dpc[c] \in {"e13", "e28", "e30", "e31", "e33"}
\* evaluate has returned to handle_conn
Evaluated(c) == dpc[c] \in {"h32", "h38"}


(* --------------- DPSMonitor.execute_actions, action by action ----------- *)
\* the action names the callers pass, and one no branch knows
ActionNames ==
  {"enableVpn", "lockClipboard", "unlockClipboard", "remountHomeRo", "notifyUser",
   "wipeDisk"}

\* the lists execute_actions is given
ActionLists == SeqsUpTo(ActionNames, MaxActions)

\* lines 167-179: what handling one action can come to.  "ok": the method
\* ran and reports success; "failed": the method ran and reports a failure
\* (a non-zero exit status, or an exception it caught itself); "raised": an
\* exception reached the except clause of execute_actions; "skipped": the
\* else branch, for an unknown action or one the configuration disables.
Outcomes(action) ==
  IF action = "wipeDisk" THEN {"skipped"}
  ELSE IF action = "unlockClipboard" THEN {"ok"}
  ELSE {"ok", "failed", "raised", "skipped"}

\* a loop that ends at the first action that does not succeed
StopOnFailure(o) == IF o \in {"failed", "raised"} THEN "returned" ELSE "e165"

\* lines 165 and 181-184: whatever the action came to, the loop goes on
Continue(o) == "e165"

\* lines 225-229 of lock_clipboard: continuous clearing is switched on, and
\* the result says so, when the command ran and the zone is Ultra
Continuous(action, o, zone) == action = "lockClipboard" /\ o = "ok" /\ zone = "zone3"

\* lines 181-182: the counter moves whenever no exception reached the loop,
\* the else branch of an unknown or disabled action included
Counted(o) == o # "raised"

\* a loop that takes the zone back to Normal when an action does not succeed
ZoneRevertedOnFailure(o) ==
  IF o \in {"failed", "raised"}
    THEN [zone |-> "zone1", locked |-> FALSE, devices |-> connected_usb_devices]
    ELSE ZoneState

\* lines 162-185 and the action methods, lines 187-311: no statement assigns
\* current_zone, ultra_mode_locked or connected_usb_devices
ZoneAfter(o) == ZoneState

\* the external commands that are run without a timeout: remount_home_ro on
\* Linux (line 280) and enable_vpn on Windows (line 197)
Unbounded(action) ==
  \/ action = "remountHomeRo" /\ platform = "Linux"
  \/ action = "enableVpn" /\ platform = "Windows"

\* lines 165-184: one pass of the loop, in the zone the monitor is in
ExecuteStep ==
  /\ exec_pc = "e165" /\ Len(results) < Len(action_list)
  /\ LET action == action_list[Len(results) + 1]
     IN \E o \in Outcomes(action) :
          /\ results' = Append(results, [action |-> action, result |-> o,
                                         continuous |-> Continuous(action, o, current_zone)])
          /\ invoked' = IF o = "skipped" THEN invoked ELSE Append(invoked, action)
          /\ actions_executed' = IF Counted(o) THEN actions_executed + 1
                                 ELSE actions_executed
          /\ IF Continuous(action, o, current_zone)
               THEN clipboard_blocked' = TRUE /\ clipboard_monitor_thread' = "Thread"
               ELSE IF action = "unlockClipboard"
                      THEN clipboard_blocked' = FALSE /\ clipboard_monitor_thread' = None
                      ELSE UNCHANGED clipVars
          /\ current_zone' = ZoneAfter(o).zone
          /\ ultra_mode_locked' = ZoneAfter(o).locked
          /\ connected_usb_devices' = ZoneAfter(o).devices
          /\ exec_pc' = Continue(o)
  /\ UNCHANGED <<daemonVars, action_list, api_entry, platform, zone_transitions,
                 events, winVars, pc, dev, url, callVars, tmp, actions, outcome,
                 accepted, entry, handled, dispatchVars, logVars, shutVars, clip_pc>>

\* one pass of the loop of the one call under study
ExecuteAction == ExecuteStep /\ UNCHANGED twinVars

\* lines 197 and 280: a command run without a timeout that never ends: the
\* method never returns, and neither does execute_actions
ExecuteHang ==
  /\ exec_pc = "e165" /\ Len(results) < Len(action_list)
  /\ Unbounded(action_list[Len(results) + 1])
  /\ exec_pc' = "blocked"
  /\ UNCHANGED <<daemonVars, monitorVars, action_list, results, invoked,
                 actions_executed, auxVars>>

\* line 185: return results
ExecuteReturn ==
  /\ exec_pc = "e165" /\ Len(results) = Len(action_list)
  /\ exec_pc' = "returned"
  /\ UNCHANGED <<daemonVars, monitorVars, action_list, results, invoked,
                 actions_executed, auxVars>>

\* the same pass in a second monitor that differs in its zone only: the same
\* action, and the same outcome of the external command
TwinExecuteAction ==
  /\ ExecuteStep
  /\ LET r == results'[Len(results')]
         c == Continuous(r.action, r.result, twin_zone)
     IN /\ twin_results' = Append(twin_results, [action |-> r.action, result |-> r.result,
                                                 continuous |-> c])
        /\ IF c THEN twin_blocked' = TRUE /\ twin_thread' = "Thread"
           ELSE IF r.action = "unlockClipboard"
                  THEN twin_blocked' = FALSE /\ twin_thread' = None
                  ELSE UNCHANGED <<twin_blocked, twin_thread>>
        /\ UNCHANGED twin_zone

(* ------------------- RuleEngine.__init__, the rule load ----------------- *)
\* an edge that has no trigger
BadEdge == Rule(None, "*", {"priority"}, <<>>, {}, 1, 0, <<"lockClipboard">>)

\* what schema/ruleSchema.json can hold: a rule document, a JSON document
\* one of whose edges has no trigger, or text that is not JSON
RuleDocuments ==
  {[json |-> TRUE, edges |-> rs] : rs \in RuleSets}
    \cup {[json |-> TRUE, edges |-> Append(rs, BadEdge)] :
            rs \in SeqsUpTo(RulePool, MaxRules - 1)}
    \cup {[json |-> FALSE, edges |-> <<>>]}

\* ruleEngine.py lines 7-8: self.rules = json.load(f).  json.load raises on
\* text that is not JSON and the daemon does not start; any JSON document
\* becomes the rule set as it is.
DLoad ==
  /\ ~loaded /\ ~config_error
  /\ \E doc \in RuleDocuments :
       IF doc.json
         THEN rules' = doc.edges /\ loaded' = TRUE /\ UNCHANGED config_error
         ELSE config_error' = TRUE /\ UNCHANGED <<rules, loaded>>
  /\ UNCHANGED <<lastTriggerTimes, clock, dpc, event, candidates, selected, now, last,
                 edge, applied, served, fired, conn_error>>
  /\ UNCHANGED <<monitorVars, execVars, auxVars>>

(* ------------- ActionDispatcher.applyActions, action by action ---------- *)
\* the action names the rules carry
DispatchNames == {"enableVpn", "lockClipboard", "remountHomeRo", "notifyUser"}

\* the lists applyActions is given
DispatchLists == SeqsUpTo(DispatchNames, MaxActions)

\* actionDispatcher.py lines 8-37: what one action can come to.  "ok": the
\* method ran its command; "failed": the method caught what the command
\* raised and printed it; "raised": the exception left applyActions;
\* "unknown": the else branch, line 17.
DispatchOutcomes(action) ==
  IF action \in {"enableVpn", "remountHomeRo"} THEN {"ok", "failed"}
  ELSE IF CanRaise(action) THEN {"ok", "raised"}
  ELSE {"unknown"}

\* lines 23 and 35: subprocess.run without a timeout
DispatchUnbounded(action) == action \in {"enableVpn", "remountHomeRo"}

\* lines 9-17: one pass of the loop
DispatchAction ==
  /\ d_pc = "a9" /\ Len(d_done) < Len(d_actions)
  /\ LET action == d_actions[Len(d_done) + 1]
     IN \E o \in DispatchOutcomes(action) :
          /\ d_done' = Append(d_done, [action |-> action, result |-> o])
          /\ d_pc' = IF o = "raised" THEN "raised" ELSE "a9"
  /\ UNCHANGED <<daemonVars, monitorVars, execVars, d_actions, logVars, shutVars, twinVars, clip_pc>>

\* lines 23 and 35: the command never ends, and neither does applyActions
DispatchHang ==
  /\ d_pc = "a9" /\ Len(d_done) < Len(d_actions)
  /\ DispatchUnbounded(d_actions[Len(d_done) + 1])
  /\ d_pc' = "blocked"
  /\ UNCHANGED <<daemonVars, monitorVars, execVars, d_actions, d_done, logVars, shutVars,
                 twinVars, clip_pc>>

\* the end of the loop: applyActions returns
DispatchReturn ==
  /\ d_pc = "a9" /\ Len(d_done) = Len(d_actions)
  /\ d_pc' = "returned"
  /\ UNCHANGED <<daemonVars, monitorVars, execVars, d_actions, d_done, logVars, shutVars,
                 twinVars, clip_pc>>

(* ------------- DPSMonitor.add_event, statement by statement ------------- *)
\* what an add_event call leaves alone
logFrame == <<platform, zoneVars, zone_transitions, clipVars, winVars, pc, dev, url,
              callVars, tmp, actions, outcome, accepted, entry, handled, api_entry,
              daemonVars, execVars, dispatchVars, shutVars, twinVars, clip_pc>>

\* lines 147-153: thread t calls add_event and builds its record; the
\* record's data is the number of the call
LogCall(t) ==
  /\ log_pc[t] = "idle"
  /\ next_id < MaxLogged
  /\ next_id' = next_id + 1
  /\ log_event' = [log_event EXCEPT ![t] = EventRecord("logged", next_id + 1, None)]
  /\ log_pc' = [log_pc EXCEPT ![t] = "l154"]
  /\ UNCHANGED <<events, events_processed>>

\* line 154: self.events.insert(0, event)
LogInsert(t) ==
  /\ log_pc[t] = "l154"
  /\ events' = <<log_event[t]>> \o events
  /\ log_pc' = [log_pc EXCEPT ![t] = "l155"]
  /\ UNCHANGED <<log_event, next_id, events_processed>>

\* line 155: if len(self.events) > self.max_events
LogCheck(t) ==
  /\ log_pc[t] = "l155"
  /\ log_pc' = [log_pc EXCEPT ![t] = IF Len(events) > max_events THEN "l156" ELSE "l157"]
  /\ UNCHANGED <<events, log_event, next_id, events_processed>>

\* line 156: self.events.pop()
LogPop(t) ==
  /\ log_pc[t] = "l156"
  /\ events' = SubSeq(events, 1, Len(events) - 1)
  /\ log_pc' = [log_pc EXCEPT ![t] = "l157"]
  /\ UNCHANGED <<log_event, next_id, events_processed>>

\* line 157: self.stats["events_processed"] += 1; the record is in the log
LogCount(t) ==
  /\ log_pc[t] = "l157"
  /\ events_processed' = events_processed + 1
  /\ log_pc' = [log_pc EXCEPT ![t] = "l159"]
  /\ UNCHANGED <<events, log_event, next_id>>

\* lines 159-160: add_event returns
LogReturn(t) ==
  /\ log_pc[t] = "l159"
  /\ log_event' = [log_event EXCEPT ![t] = NoRecord]
  /\ log_pc' = [log_pc EXCEPT ![t] = "idle"]
  /\ UNCHANGED <<events, next_id, events_processed>>

(* --------------------- signal_handler, lines 805-809 -------------------- *)
\* what the signal handler leaves alone
sigFrame == <<platform, zoneVars, zone_transitions, events, winVars, pc, dev, url,
              callVars, tmp, actions, outcome, accepted, entry, handled, api_entry,
              daemonVars, execVars, dispatchVars, logVars, twinVars, clip_pc>>

\* line 807: dps_monitor.running = False
SigFlag ==
  /\ sig_pc = "wait"
  /\ running' = FALSE
  /\ sig_pc' = "s808"
  /\ UNCHANGED <<clipVars, sigFrame>>

\* line 808: dps_monitor.stop_clipboard_monitor()
SigStopClipboard ==
  /\ sig_pc = "s808"
  /\ stop_clipboard_monitor
  /\ sig_pc' = "s809"
  /\ UNCHANGED <<running, sigFrame>>

\* line 809: sys.exit(0): the process ends, and its daemon threads with it
SigExit ==
  /\ sig_pc = "s809"
  /\ sig_pc' = "exited"
  /\ UNCHANGED <<running, clipVars, sigFrame>>

\* the process has not ended
Alive == sig_pc # "exited"

(* --------------------------- specifications ---------------------------- *)
\* The program as it runs: the threads interleave statement by statement.
Next ==
  \/ \E t \in Threads : TzReadOld(t)
  \/ \E t \in Threads : TzCheckLock(t)
  \/ \E t \in Threads : TzCheckDevices(t)
  \/ \E t \in Threads : TzBlock(t)
  \/ \E t \in Threads : TzWriteZone(t)
  \/ \E t \in Threads : TzReadCounter(t)
  \/ \E t \in Threads : TzWriteCounter(t)
  \/ \E t \in Threads : TzLog(t)
  \/ \E t \in Threads : TzClipboard(t)
  \/ UsbAdd \/ UsbRemove \/ WinInit \/ WinPoll \/ WinNextNew \/ WinNextRemoved
  \/ WinEndPoll \/ UsbLogPlugged \/ UsbSetLocked \/ UsbExecuteActions
  \/ UsbLogLockdown \/ UsbCheckTracked \/ UsbRemoveDevice \/ UsbLogRemoved \/ UsbCheckEmpty
  \/ UsbClearLock \/ UsbStopClipboard \/ UsbLogUnlock
  \/ ProcDetected
  \/ UrlDetected \/ UrlCheckLock \/ UrlExecuteActions \/ UrlLogActivated
  \/ ApiUsbRequest \/ ApiSetLocked \/ ApiUsbExecute \/ ApiUsbLog
  \/ ApiUrlRequest \/ ApiUrlExecute \/ ApiUrlLog

Spec == Init /\ [][Next]_vars

\* The same handlers run one event at a time: a thread takes a step only
\* while every other thread is between two events.
Alone(t) == \A u \in Threads \ {t} : AtRest(u)

SeqNext ==
  \/ \E t \in Threads : Alone(t) /\ TzReadOld(t)
  \/ \E t \in Threads : Alone(t) /\ TzCheckLock(t)
  \/ \E t \in Threads : Alone(t) /\ TzCheckDevices(t)
  \/ \E t \in Threads : Alone(t) /\ TzBlock(t)
  \/ \E t \in Threads : Alone(t) /\ TzWriteZone(t)
  \/ \E t \in Threads : Alone(t) /\ TzReadCounter(t)
  \/ \E t \in Threads : Alone(t) /\ TzWriteCounter(t)
  \/ \E t \in Threads : Alone(t) /\ TzLog(t)
  \/ \E t \in Threads : Alone(t) /\ TzClipboard(t)
  \/ Alone("usb") /\ UsbAdd
  \/ Alone("usb") /\ UsbRemove
  \/ Alone("usb") /\ WinInit
  \/ Alone("usb") /\ WinPoll
  \/ Alone("usb") /\ WinNextNew
  \/ Alone("usb") /\ WinNextRemoved
  \/ Alone("usb") /\ WinEndPoll
  \/ Alone("usb") /\ UsbLogPlugged
  \/ Alone("usb") /\ UsbSetLocked
  \/ Alone("usb") /\ UsbExecuteActions
  \/ Alone("usb") /\ UsbLogLockdown
  \/ Alone("usb") /\ UsbCheckTracked
  \/ Alone("usb") /\ UsbRemoveDevice
  \/ Alone("usb") /\ UsbLogRemoved
  \/ Alone("usb") /\ UsbCheckEmpty
  \/ Alone("usb") /\ UsbClearLock
  \/ Alone("usb") /\ UsbStopClipboard
  \/ Alone("usb") /\ UsbLogUnlock
  \/ Alone("proc") /\ ProcDetected
  \/ Alone("url") /\ UrlDetected
  \/ Alone("url") /\ UrlCheckLock
  \/ Alone("url") /\ UrlExecuteActions
  \/ Alone("url") /\ UrlLogActivated
  \/ Alone("api") /\ ApiUsbRequest
  \/ Alone("api") /\ ApiSetLocked
  \/ Alone("api") /\ ApiUsbExecute
  \/ Alone("api") /\ ApiUsbLog
  \/ Alone("api") /\ ApiUrlRequest
  \/ Alone("api") /\ ApiUrlExecute
  \/ Alone("api") /\ ApiUrlLog

SpecSeq == Init /\ [][SeqNext]_vars


\* One call of applyActions, on any list of up to MaxActions actions.
InitDispatch ==
  /\ MonitorInit /\ platform = "Linux"
  /\ RuleEngineInit(<<>>)
  /\ ExecInit(<<>>)
  /\ \E list \in DispatchLists : DispatchInit(list)
  /\ LogInit /\ ShutInit /\ TwinOff /\ ClipInit

DispatchNext == DispatchAction \/ DispatchHang \/ DispatchReturn

SpecDispatch == InitDispatch /\ [][DispatchNext]_vars

(* ------ start_clipboard_monitor, stop_clipboard_monitor, lines 241-273 ------ *)
\* what the clipboard calls and the monitor_clipboard threads leave alone
clipFrame == <<platform, zoneVars, zone_transitions, events, winVars, pc, dev, url,
               callVars, tmp, actions, outcome, accepted, entry, handled, api_entry,
               daemonVars, execVars, dispatchVars, logVars, shutVars, twinVars>>

\* the Thread object number i, as clipboard_monitor_thread refers to it
ClipName(i) == ToString(i)

\* a monitor_clipboard thread that was started and has not left its loop
ClipAlive(i) == clip_pc[i] \in {"loop", "sleep"}

\* Thread.is_alive() of the object that ref names
is_alive(ref) == \E i \in ClipThreads : ClipName(i) = ref /\ ClipAlive(i)

\* lines 363-364 (226-227): clipboard_blocked = True, then
\* start_clipboard_monitor (242-266, clipboard_protection.enabled at its
\* default): it returns when the referenced thread is alive, else it creates
\* a Thread, stores it and starts it
ClipLock ==
  /\ clipboard_blocked' = TRUE
  /\ IF clipboard_monitor_thread # None /\ is_alive(clipboard_monitor_thread)
       THEN UNCHANGED <<clipboard_monitor_thread, clip_pc>>
       ELSE \E i \in ClipThreads :
              /\ clip_pc[i] = "unborn"
              /\ \A j \in ClipThreads : j < i => clip_pc[j] # "unborn"
              /\ clip_pc' = [clip_pc EXCEPT ![i] = "loop"]
              /\ clipboard_monitor_thread' = ClipName(i)
  /\ UNCHANGED clipFrame

\* lines 269-273, and unlock_clipboard 234-239: clipboard_blocked = False and
\* the reference dropped; the thread itself is not touched
ClipUnlock ==
  /\ stop_clipboard_monitor
  /\ UNCHANGED <<clip_pc, clipFrame>>

\* line 249: while self.clipboard_blocked and self.running; the body clears
\* the clipboard (250-258) and goes to sleep (260)
ClipLoop(i) ==
  /\ clip_pc[i] = "loop"
  /\ clip_pc' = [clip_pc EXCEPT ![i] = IF clipboard_blocked /\ running
                                          THEN "sleep" ELSE "exited"]
  /\ UNCHANGED <<clipVars, clipFrame>>

\* line 260: time.sleep(interval) returns
ClipSleep(i) ==
  /\ clip_pc[i] = "sleep"
  /\ clip_pc' = [clip_pc EXCEPT ![i] = "loop"]
  /\ UNCHANGED <<clipVars, clipFrame>>

\* The clipboard calls of the monitor in any order, the threads they start,
\* and the signal that ends the process.
InitClip == Init /\ platform = "Linux"

ClipNext ==
  \/ Alive /\ ClipLock
  \/ Alive /\ ClipUnlock
  \/ \E i \in ClipThreads : Alive /\ ClipLoop(i)
  \/ \E i \in ClipThreads : Alive /\ ClipSleep(i)
  \/ SigFlag
  \/ SigStopClipboard
  \/ SigExit

SpecClip == InitClip /\ [][ClipNext]_vars

\* every started thread gets to run
SpecClipFair ==
  SpecClip /\ \A i \in ClipThreads :
                 WF_vars(Alive /\ ClipLoop(i)) /\ WF_vars(Alive /\ ClipSleep(i))

\* The threads of the monitor logging events, statement by statement.
InitLog == Init /\ platform = "Linux"

LogNext ==
  \/ \E t \in Loggers : LogCall(t) /\ UNCHANGED logFrame
  \/ \E t \in Loggers : LogInsert(t) /\ UNCHANGED logFrame
  \/ \E t \in Loggers : LogCheck(t) /\ UNCHANGED logFrame
  \/ \E t \in Loggers : LogPop(t) /\ UNCHANGED logFrame
  \/ \E t \in Loggers : LogCount(t) /\ UNCHANGED logFrame
  \/ \E t \in Loggers : LogReturn(t) /\ UNCHANGED logFrame

SpecLog == InitLog /\ [][LogNext]_vars

\* The monitor, one handler at a time, and the signal that shuts it down:
\* once the flag is cleared an observer loop takes up no further event, the
\* handlers in progress and the request handlers of the API run on until the
\* process ends.
ShutdownNext ==
  \/ SigFlag
  \/ SigStopClipboard
  \/ SigExit
  \/ Alive /\ \E t \in Threads : Alone(t) /\ TzReadOld(t)
  \/ Alive /\ \E t \in Threads : Alone(t) /\ TzCheckLock(t)
  \/ Alive /\ \E t \in Threads : Alone(t) /\ TzCheckDevices(t)
  \/ Alive /\ \E t \in Threads : Alone(t) /\ TzBlock(t)
  \/ Alive /\ \E t \in Threads : Alone(t) /\ TzWriteZone(t)
  \/ Alive /\ \E t \in Threads : Alone(t) /\ TzReadCounter(t)
  \/ Alive /\ \E t \in Threads : Alone(t) /\ TzWriteCounter(t)
  \/ Alive /\ \E t \in Threads : Alone(t) /\ TzLog(t)
  \/ Alive /\ \E t \in Threads : Alone(t) /\ TzClipboard(t)
  \/ Alive /\ running /\ Alone("usb") /\ UsbAdd
  \/ Alive /\ running /\ Alone("usb") /\ UsbRemove
  \/ Alive /\ Alone("usb") /\ WinInit
  \/ Alive /\ running /\ Alone("usb") /\ WinPoll
  \/ Alive /\ Alone("usb") /\ WinNextNew
  \/ Alive /\ Alone("usb") /\ WinNextRemoved
  \/ Alive /\ Alone("usb") /\ WinEndPoll
  \/ Alive /\ Alone("usb") /\ UsbLogPlugged
  \/ Alive /\ Alone("usb") /\ UsbSetLocked
  \/ Alive /\ Alone("usb") /\ UsbExecuteActions
  \/ Alive /\ Alone("usb") /\ UsbLogLockdown
  \/ Alive /\ Alone("usb") /\ UsbCheckTracked
  \/ Alive /\ Alone("usb") /\ UsbRemoveDevice
  \/ Alive /\ Alone("usb") /\ UsbLogRemoved
  \/ Alive /\ Alone("usb") /\ UsbCheckEmpty
  \/ Alive /\ Alone("usb") /\ UsbClearLock
  \/ Alive /\ Alone("usb") /\ UsbStopClipboard
  \/ Alive /\ Alone("usb") /\ UsbLogUnlock
  \/ Alive /\ running /\ Alone("proc") /\ ProcDetected
  \/ Alive /\ running /\ Alone("url") /\ UrlDetected
  \/ Alive /\ Alone("url") /\ UrlCheckLock
  \/ Alive /\ Alone("url") /\ UrlExecuteActions
  \/ Alive /\ Alone("url") /\ UrlLogActivated
  \/ Alive /\ Alone("api") /\ ApiUsbRequest
  \/ Alive /\ Alone("api") /\ ApiSetLocked
  \/ Alive /\ Alone("api") /\ ApiUsbExecute
  \/ Alive /\ Alone("api") /\ ApiUsbLog
  \/ Alive /\ Alone("api") /\ ApiUrlRequest
  \/ Alive /\ Alone("api") /\ ApiUrlExecute
  \/ Alive /\ Alone("api") /\ ApiUrlLog

SpecShutdown == Init /\ [][ShutdownNext]_vars

\* The rule daemon started on a rule document: every connection is handled
\* in a thread of its own, and the threads interleave statement by statement.
InitDaemon ==
  /\ MonitorInit /\ platform = "Linux"
  /\ \E rs \in RuleSets : RuleEngineInit(rs)
  /\ ExecInit(<<>>)
  /\ AuxInit(<<>>)

DaemonNext ==
  \/ \E c \in Conns : DAccept(c)
  \/ \E c \in Conns : DMalformed(c)
  \/ \E c \in Conns : DSelect(c)
  \/ \E c \in Conns : DReadNow(c)
  \/ \E c \in Conns : DReadLast(c)
  \/ \E c \in Conns : DCheckCooldown(c)
  \/ \E c \in Conns : DRecord(c)
  \/ \E c \in Conns : DApply(c)
  \/ \E c \in Conns : DClose(c)
  \/ Tick

SpecDaemon == InitDaemon /\ [][DaemonNext]_vars

\* The daemon handling one connection at a time.
DaemonAlone(c) == \A d \in Conns \ {c} : dpc[d] = "accept"

DaemonSeqNext ==
  \/ \E c \in Conns : DaemonAlone(c) /\ DAccept(c)
  \/ \E c \in Conns : DaemonAlone(c) /\ DMalformed(c)
  \/ \E c \in Conns : DaemonAlone(c) /\ DSelect(c)
  \/ \E c \in Conns : DaemonAlone(c) /\ DReadNow(c)
  \/ \E c \in Conns : DaemonAlone(c) /\ DReadLast(c)
  \/ \E c \in Conns : DaemonAlone(c) /\ DCheckCooldown(c)
  \/ \E c \in Conns : DaemonAlone(c) /\ DRecord(c)
  \/ \E c \in Conns : DaemonAlone(c) /\ DApply(c)
  \/ \E c \in Conns : DaemonAlone(c) /\ DClose(c)
  \/ Tick

SpecDaemonSeq == InitDaemon /\ [][DaemonSeqNext]_vars

\* The rule daemon from the load of its rule document on, one connection at
\* a time.
InitLoad ==
  /\ MonitorInit /\ platform = "Linux"
  /\ rules = <<>> /\ loaded = FALSE /\ config_error = FALSE
  /\ DaemonStart
  /\ ExecInit(<<>>)
  /\ AuxInit(<<>>)

LoadNext ==
  \/ DLoad
  \/ \E c \in Conns : loaded /\ DaemonAlone(c) /\ DAccept(c)
  \/ \E c \in Conns : loaded /\ DaemonAlone(c) /\ DMalformed(c)
  \/ \E c \in Conns : loaded /\ DaemonAlone(c) /\ DSelect(c)
  \/ \E c \in Conns : loaded /\ DaemonAlone(c) /\ DReadNow(c)
  \/ \E c \in Conns : loaded /\ DaemonAlone(c) /\ DReadLast(c)
  \/ \E c \in Conns : loaded /\ DaemonAlone(c) /\ DCheckCooldown(c)
  \/ \E c \in Conns : loaded /\ DaemonAlone(c) /\ DRecord(c)
  \/ \E c \in Conns : loaded /\ DaemonAlone(c) /\ DApply(c)
  \/ \E c \in Conns : loaded /\ DaemonAlone(c) /\ DClose(c)
  \/ loaded /\ Tick

SpecLoad == InitLoad /\ [][LoadNext]_vars

\* One call of execute_actions, on any list of up to MaxActions actions.
InitExec ==
  /\ \E s \in EntryStates : MonitorIn(s)
  /\ platform = "Linux"
  /\ RuleEngineInit(<<>>)
  /\ \E list \in ActionLists : ExecInit(list)
  /\ AuxInit(<<>>)

ExecNext == ExecuteAction \/ ExecuteHang \/ ExecuteReturn

SpecExec == InitExec /\ [][ExecNext]_vars

\* The same call, the thread that makes it being scheduled again and again.
SpecExecFair == SpecExec /\ WF_vars(ExecNext)

\* Two monitors that differ in their zone make the same call, and every
\* external command comes to the same in both.
InitExecTwin ==
  /\ \E s \in EntryStates : MonitorIn(s)
  /\ platform = "Linux"
  /\ RuleEngineInit(<<>>)
  /\ \E list \in ActionLists : ExecInit(list)
  /\ DispatchInit(<<>>) /\ LogInit /\ ShutInit /\ ClipInit
  /\ twin_zone \in {s.zone : s \in EntryStates}
  /\ twin_blocked = FALSE
  /\ twin_thread = None
  /\ twin_results = <<>>

ExecTwinNext == TwinExecuteAction \/ ExecuteHang \/ ExecuteReturn

SpecExecTwin == InitExecTwin /\ [][ExecTwinNext]_vars


(* ------------------------------ properties ----------------------------- *)
\* the lock is held in Ultra with a witness present
LockHeld ==
  ultra_mode_locked /\ current_zone = "zone3" /\ connected_usb_devices # {}

Quiet == \A t \in Threads : AtRest(t)

\* C1: whenever a tracked device is present and the lock is set for it, the
\* zone is Ultra, whatever the interleaving of the observers and the API.
C1_UltraWhileTracked ==
  (connected_usb_devices # {} /\ ultra_mode_locked) => current_zone = "zone3"

\* C2: while the lock is held in Ultra with a witness present, a
\* transition_zone call for any other zone is rejected: no step of the call
\* changes the zone, the lock, the witnesses or the counter, and the call
\* returns blocked.
C2_LockedRejects ==
  [][\A t \in Threads :
       (InTransition(t) /\ new_zone[t] # "zone3" /\ LockHeld) =>
         /\ current_zone' = current_zone
         /\ ultra_mode_locked' = ultra_mode_locked
         /\ connected_usb_devices' = connected_usb_devices
         /\ zone_transitions' = zone_transitions
         /\ (pc'[t] = ret[t] => outcome'[t] = "blocked")]_vars

\* a call for another zone has just been rejected under the held lock
C2_Rejected ==
  \E t \in Threads : outcome[t] = "blocked" /\ ~InTransition(t) /\ LockHeld

\* C3: in every state, also between the steps of the handlers, the lock
\* being set implies a non-empty witness set.
C3_LockedImpliesWitness ==
  ultra_mode_locked => connected_usb_devices # {}

\* the removal of the last witness of a held lock has cleared the lock and
\* the exit to Normal it triggers is not yet made
ExitPending ==
  /\ entry.locked /\ entry.zone = "zone3" /\ entry.devices = {dev["usb"]}
  /\ \/ pc["usb"] = "r434"
     \/ ret["usb"] = "r436" /\ pc["usb"] \in {"tz340", "tz343", "tz344", "tz353"}

\* C4: clearing the lock on the removal of the last witness and the exit to
\* Normal are one atomic step: no other thread takes a step of a
\* transition request between the two.
C4_AtomicExit ==
  [][ExitPending =>
       \A t \in Threads \ {"usb"} : InTransition(t) => pc'[t] = pc[t]]_vars

\* the USB thread has run the plug handler for sdb1, up to and including
\* execute_actions, from Normal and unlocked
PlugHandled ==
  /\ pc["usb"] = "p416" /\ dev["usb"] = "sdb1"
  /\ entry.zone = "zone1" /\ ~entry.locked

\* C5 as stated: from Normal and unlocked, the plug of sdb1 gives Ultra,
\* locked, witnesses {sdb1} and the dispatch list [remountHomeRo, notifyUser].
C5_PlugScenario ==
  PlugHandled =>
    /\ current_zone = "zone3" /\ ultra_mode_locked
    /\ connected_usb_devices = {"sdb1"}
    /\ actions["usb"] = <<"remountHomeRo", "notifyUser">>

\* C5 as amended: with the Linux observer, from Normal and unlocked, the plug
\* of sdb1 gives Ultra, locked, witnesses {sdb1} and the dispatch list
\* [lockClipboard, remountHomeRo, notifyUser].
C5_PlugScenarioLinux ==
  (platform = "Linux" /\ PlugHandled) =>
    /\ current_zone = "zone3" /\ ultra_mode_locked
    /\ connected_usb_devices = {"sdb1"}
    /\ actions["usb"] = <<"lockClipboard", "remountHomeRo", "notifyUser">>

C5_PlugHandledLinux == platform = "Linux" /\ PlugHandled

\* C6: the zone, the lock and the witness set change only in steps of
\* transition_zone.
C6_SingleEntryPoint ==
  [][zoneVars' # zoneVars =>
       \E t \in Threads : InTransition(t) /\ pc'[t] # pc[t]]_vars

\* C7: between events there is no witness while the engine is unlocked in
\* Normal; in particular the witness set is empty until a plug is handled.
C7_NoWitnessWhileUnlocked ==
  (Quiet /\ current_zone = "zone1" /\ ~ultra_mode_locked)
    => connected_usb_devices = {}

\* C8: whenever no transition_zone call is in progress, the counter equals
\* the number of accepted transitions.
C8_CounterCountsAccepted ==
  (\A t \in Threads : ~InTransition(t)) => zone_transitions = accepted

\* an event's transition is refused because of the lock: inside
\* transition_zone, or by the lock test of the URL monitor or of the API
RefusedByLock ==
  \/ \E t \in Threads : pc[t] = "tz345" /\ pc'[t] # "tz345"
  \/ pc["url"] = "u669" /\ pc'["url"] = "idle"
  \/ pc["api"] = "idle" /\ pc'["api"] = "a743"

\* C9: every refusal because of the lock appends exactly one
\* zone_transition_blocked record to the event log.
C9_RefusalLogged ==
  [][RefusedByLock =>
       /\ Len(events') >= 1
       /\ events'[1].type = "zone_transition_blocked"
       /\ events' = Trim(<<events'[1]>> \o events)]_vars

\* C10: a handler holds dispatched actions only when its transition request
\* was accepted.
C10_ActionsOnlyOnAccept ==
  \A t \in Threads : actions[t] # <<>> => outcome[t] = "accepted"

(* ----------------------- properties of the daemon ---------------------- *)
\* the conditions an edge declares hold on the event's payload
ConditionsHold(r, e) ==
  /\ "urlPattern" \in r.has =>
       /\ "url" \in e.has
       /\ \E i \in 1..Len(r.urlPattern) : StripStar(r.urlPattern[i]) \in e.url.has
  /\ "deviceClass" \in r.has =>
       "device" \in e.has /\ e.deviceClass \in r.deviceClass

\* the edge matches the event: trigger, zone and conditions
RuleMatches(r, e) ==
  /\ "trigger" \in e.has /\ r.trigger = e.trigger
  /\ r.fromZone \in {"*", current_zone}
  /\ ConditionsHold(r, e)

NoRuleMatches(e) == \A i \in 1..Len(rules) : ~RuleMatches(rules[i], e)

\* C11: while a connection thread handles an event that matches no rule
\* (trigger, zone and conditions), no step changes the cooldown map, the rule
\* set or the zone state, evaluate returns None and no action is dispatched.
C11_NoMatchNoEffect ==
  [][\A c \in Conns :
       (dpc[c] # "accept" /\ NoRuleMatches(event[c])) =>
         /\ lastTriggerTimes' = lastTriggerTimes
         /\ rules' = rules
         /\ zoneVars' = zoneVars
         /\ edge'[c] = 0
         /\ applied'[c] = <<>>]_vars

\* C12: evaluate returns an edge only if its trigger is the event's trigger
\* and its fromZone is the wildcard or the current zone.
C12_ZoneRespected ==
  \A c \in Conns :
    (Evaluated(c) /\ edge[c] # 0) =>
      /\ "trigger" \in event[c].has /\ rules[edge[c]].trigger = event[c].trigger
      /\ rules[edge[c]].fromZone \in {"*", current_zone}

\* C13: evaluate never returns an edge whose declared conditions do not hold
\* on the event's payload.
C13_ConditionsRespected ==
  \A c \in Conns :
    (Evaluated(c) /\ edge[c] # 0) => ConditionsHold(rules[edge[c]], event[c])

\* the edges evaluate keeps for the event, as a set of positions
Eligible(e) == {i \in 1..Len(rules) : Matches(rules[i], e)}

\* evaluate has made its selection for the event of thread c
Selecting(c) == dpc[c] \notin {"accept", "e13"} /\ candidates[c] # <<>>

\* C14: the edge evaluate selects is eligible, no eligible edge has a greater
\* priority (a missing priority counting as 0) and no eligible edge of the
\* same priority is declared before it; the selection is thus a function of
\* the event and the rule set, the same at every evaluation.
C14_FirstOfHighestPriority ==
  \A c \in Conns :
    Selecting(c) =>
      /\ selected[c] \in Eligible(event[c])
      /\ \A j \in Eligible(event[c]) :
           /\ Priority(j) <= Priority(selected[c])
           /\ Priority(j) = Priority(selected[c]) => selected[c] <= j

\* a tie: the selected edge is declared before another eligible edge of the
\* same priority, one of the two carrying no priority field
C14_TieBroken ==
  \E c \in Conns :
    /\ Selecting(c)
    /\ \E j \in Eligible(event[c]) :
         /\ j > selected[c] /\ Priority(j) = Priority(selected[c])
         /\ "priority" \notin rules[selected[c]].has
         /\ "priority" \in rules[j].has

\* the last firing time the cooldown map holds for the key after the step
LastTimeAfter(key) ==
  IF key \in DOMAIN lastTriggerTimes' THEN lastTriggerTimes'[key] ELSE 0

\* thread c returns from evaluate in this step, its selected edge having a
\* cooldown and having fired before
ReturnsCooled(c) ==
  /\ InEvaluate(c) /\ dpc'[c] = "h32"
  /\ selected'[c] # 0
  /\ Cooldown(rules[selected'[c]]) # 0
  /\ Key(rules[selected'[c]]) \in DOMAIN fired

\* C15: for an edge with cooldown C that fired at t0, an evaluation that
\* selects it at t with t - t0 < C returns None and leaves its last firing
\* time at t0; one that selects it at t with t - t0 > C returns the edge and
\* sets its last firing time to t.
C15_CooldownWindow ==
  [][\A c \in Conns :
       ReturnsCooled(c) =>
         LET r == rules[selected'[c]]
             t0 == fired[Key(r)]
             t == now'[c]
         IN /\ t - t0 < Cooldown(r) => edge'[c] = 0 /\ LastTimeAfter(Key(r)) = t0
            /\ t - t0 > Cooldown(r) => edge'[c] = selected'[c] /\ LastTimeAfter(Key(r)) = t]_vars

\* evaluate has returned for an event whose selected edge has a cooldown and
\* was found to have fired at time last[c]
CooledEvaluated(c) ==
  /\ Evaluated(c) /\ selected[c] # 0
  /\ Cooldown(rules[selected[c]]) # 0
  /\ last[c] # 0

\* an edge that fired before is returned again after its window has passed
C15_FiredAfterWindow ==
  \E c \in Conns :
    /\ CooledEvaluated(c)
    /\ now[c] - last[c] > Cooldown(rules[selected[c]])
    /\ edge[c] = selected[c]

\* C16: when the selected (highest-priority) edge is inside its cooldown
\* window evaluate returns no edge at all, whatever other candidates there
\* are.
C16_NoFallThrough ==
  [][\A c \in Conns :
       (ReturnsCooled(c)
          /\ now'[c] - fired[Key(rules[selected'[c]])] < Cooldown(rules[selected'[c]])) =>
         edge'[c] \notin Eligible(event[c])]_vars

\* the suppressed edge had a lower-priority candidate without a cooldown
C16_SuppressedWithAlternative ==
  \E c \in Conns :
    /\ CooledEvaluated(c) /\ dpc[c] = "h38"
    /\ edge[c] = 0 /\ applied[c] = <<>>
    /\ now[c] - last[c] < Cooldown(rules[selected[c]])
    /\ Len(candidates[c]) > 1
    /\ Cooldown(rules[candidates[c][2]]) = 0
    /\ Priority(candidates[c][2]) < Priority(selected[c])

\* two connection threads hold the same cooled-down edge, returned by
\* evaluations made within one cooldown window
BothFired(c, d) ==
  /\ Evaluated(c) /\ Evaluated(d)
  /\ edge[c] # 0 /\ edge[d] # 0
  /\ Key(rules[edge[c]]) = Key(rules[edge[d]])
  /\ Cooldown(rules[edge[c]]) # 0
  /\ now[c] - now[d] < Cooldown(rules[edge[c]])
  /\ now[d] - now[c] < Cooldown(rules[edge[c]])

\* C17: of two events for the same rule key handled concurrently within one
\* cooldown window, at most one evaluation returns the rule.
C17_AtMostOneFires ==
  \A c, d \in Conns : c # d => ~BothFired(c, d)

\* C18: at any time at most one event is inside the evaluate-and-transition
\* step, be it in RuleEngine.evaluate or in DPSMonitor.transition_zone.
C18_Serialized ==
  Cardinality({c \in Conns : InEvaluate(c)})
    + Cardinality({t \in Threads : InTransition(t)}) <= 1

(* ----------------------- the sensitive-URL scenario --------------------- *)
\* the API has handled a URL event for https://test.bank.com/login, up to
\* and including execute_actions, taken up in Normal and unlocked
BankUrlHandled ==
  /\ pc["api"] = "a744" /\ url["api"] = BankUrl.text
  /\ api_entry.zone = "zone1" /\ ~api_entry.locked

\* no handler is ever at work on https://example.com: the event ends where
\* it is detected, without a transition request and without an action
PlainUrlDropped ==
  \A t \in Threads : url[t] # PlainUrl.text

\* C19 as stated: from Normal and unlocked the URL event for
\* https://test.bank.com/login moves the zone to Sensitive and dispatches
\* exactly [enableVpn, lockClipboard]; https://example.com does nothing.
C19_UrlScenario ==
  /\ BankUrlHandled =>
       /\ current_zone = "zone2" /\ outcome["api"] = "accepted"
       /\ actions["api"] = <<"enableVpn", "lockClipboard">>
  /\ PlainUrlDropped

\* C19 as amended: the dispatch list is [enableVpn, lockClipboard, notifyUser].
C19_UrlScenarioNotify ==
  /\ BankUrlHandled =>
       /\ current_zone = "zone2" /\ outcome["api"] = "accepted"
       /\ actions["api"] = <<"enableVpn", "lockClipboard", "notifyUser">>
  /\ PlainUrlDropped

C19_BankUrlHandled == BankUrlHandled /\ current_zone = "zone2"

(* ------------------------ fail-soft action dispatch --------------------- *)
\* the actions of the results whose method was called, in order
RECURSIVE Called(_)
Called(rs) ==
  IF rs = <<>> THEN <<>>
  ELSE LET front == Called(SubSeq(rs, 1, Len(rs) - 1))
           r == rs[Len(rs)]
       IN IF r.result = "skipped" THEN front ELSE Append(front, r.action)

\* C20: execute_actions handles the actions in declared order whatever the
\* earlier ones came to: the results are one per action handled, in the
\* order of the list, the methods were called in that order, and the call
\* returns only when every action of the list has its result.
C20_FailSoft ==
  /\ Len(results) <= Len(action_list)
  /\ \A i \in 1..Len(results) : results[i].action = action_list[i]
  /\ invoked = Called(results)
  /\ exec_pc = "returned" => Len(results) = Len(action_list)

\* [a1 fails, a2 succeeds]: both were attempted and both results returned
C20_FailedThenSucceeded ==
  /\ exec_pc = "returned" /\ Len(results) >= 2
  /\ results[1].result \in {"failed", "raised"}
  /\ results[2].result = "ok"
  /\ Len(invoked) >= 2

\* C21: applyActions is fail-soft: when the call is over, by return or by an
\* exception, every action of the list has been attempted.
C21_DispatchFailSoft ==
  d_pc \in {"returned", "raised"} => Len(d_done) = Len(d_actions)

\* the action names execute_actions has a branch for
KnownActions ==
  {"enableVpn", "lockClipboard", "unlockClipboard", "remountHomeRo", "notifyUser"}

\* how many of the actions handled so far carry a known name
KnownHandled == Cardinality({i \in 1..Len(results) : results[i].action \in KnownActions})

\* C22: an unknown action name gets the result of the else branch, is not
\* counted as an executed action, and the loop goes on to the next action.
C22_UnknownNotCounted ==
  /\ \A i \in 1..Len(results) :
       results[i].action \notin KnownActions => results[i].result = "skipped"
  /\ actions_executed <= KnownHandled
  /\ exec_pc = "returned" => Len(results) = Len(action_list)

\* C23: no step of execute_actions changes current_zone, ultra_mode_locked
\* or connected_usb_devices, whatever the actions come to.
C23_ZoneUntouched == [][zoneVars' = zoneVars]_vars

\* the call made in Ultra has returned with a failed action, and the
\* monitor is in Ultra still
C23_FailedInUltra ==
  /\ exec_pc = "returned"
  /\ \E i \in 1..Len(results) : results[i].result \in {"failed", "raised"}
  /\ current_zone = "zone3" /\ ultra_mode_locked

\* C24: the same list with the same outcomes of the external commands gives
\* the same results and the same clipboard state whatever the zone.
C24_ZoneBlind ==
  /\ results = twin_results
  /\ clipboard_blocked = twin_blocked
  /\ clipboard_monitor_thread = twin_thread

\* the connection thread c is about to close a connection whose data had no
\* trigger to decode
Malformed(c) == dpc[c] = "h38" /\ "trigger" \notin event[c].has

\* C25: data that are not JSON, not an object, or an object with no trigger
\* end in the error branch of handle_conn, with no rule matched and no
\* action applied.
C25_MalformedRejected ==
  \A c \in Conns :
    Malformed(c) => /\ conn_error[c]
                    /\ edge[c] = 0 /\ applied[c] = <<>>

\* C26: whenever an add_event call has completed, the log holds at most
\* max_events records, however the calls of the threads interleave.
C26_BoundedLog ==
  \A t \in Loggers : log_pc[t] = "l159" => Len(events) <= max_events

\* C27: once the shutdown signal has cleared running, no zone transition is
\* made.
C27_NoTransitionAfterShutdown == [][~running => current_zone' = current_zone]_vars

\* C28: no call of execute_actions blocks for ever: it returns.
C28_AlwaysReturns == <>(exec_pc = "returned")

\* every edge of the rule set has the fields evaluate reads
ValidRuleSet(rs) == \A i \in 1..Len(rs) : HasTrigger(rs[i])

\* C29: the rule set the engine evaluates against is never that of an
\* invalid document: such a document is reported and not taken.
C29_AllOrNothing == loaded => ValidRuleSet(rules)

\* the keys of the rules that declare a cooldown
CooldownKeys == {Key(rules[i]) : i \in {j \in 1..Len(rules) : Cooldown(rules[j]) # 0}}

\* C30: lastTriggerTimes has entries only under the keys of rules that
\* declare a cooldown, no more entries than there are rules, and no entry
\* is ever deleted.
C30_CooldownKeysOnly ==
  /\ [](/\ DOMAIN lastTriggerTimes \subseteq CooldownKeys
        /\ Cardinality(DOMAIN lastTriggerTimes) <= Len(rules))
  /\ [][DOMAIN lastTriggerTimes \subseteq DOMAIN lastTriggerTimes']_vars

\* a rule without a cooldown has fired while the map holds an entry
C30_FiredWithoutEntry ==
  /\ DOMAIN lastTriggerTimes # {}
  /\ \E c \in Conns : /\ dpc[c] = "h32" /\ edge[c] # 0
                      /\ Cooldown(rules[edge[c]]) = 0
                      /\ Key(rules[edge[c]]) \notin DOMAIN lastTriggerTimes

\* C31: the cooldown map changes only in a step in which evaluate returns an
\* edge that declares a cooldown; only the entry under that edge's key
\* changes, it becomes the time read by that evaluation, and it does not
\* decrease.  An evaluation that returns None leaves the map as it is.
C31_EntryChangesOnFire ==
  [][lastTriggerTimes' # lastTriggerTimes =>
       \E c \in Conns :
         /\ InEvaluate(c) /\ dpc'[c] = "h32" /\ edge'[c] # 0
         /\ "cooldownSeconds" \in rules[edge'[c]].has
         /\ rules[edge'[c]].cooldownSeconds # 0
         /\ \A k \in DOMAIN lastTriggerTimes' :
              IF k = Key(rules[edge'[c]])
                THEN lastTriggerTimes'[k] = now[c] /\ now[c] >= LastTime(k)
                ELSE k \in DOMAIN lastTriggerTimes
                       /\ lastTriggerTimes'[k] = lastTriggerTimes[k]]_vars

\* the edge declares no cooldown: cooldownSeconds is absent or 0
NoCooldown(r) == "cooldownSeconds" \notin r.has \/ r.cooldownSeconds = 0

\* C32: an evaluation whose selected edge declares no cooldown returns that
\* edge at its next step, whatever the cooldown map holds, and leaves the
\* map as it is.
C32_NoCooldownNeverSuppressed ==
  [][\A c \in Conns :
       (/\ dpc[c] \in {"e28", "e30", "e31", "e33"}
        /\ NoCooldown(rules[selected[c]])
        /\ dpc'[c] # dpc[c]) =>
         /\ dpc'[c] = "h32" /\ edge'[c] = selected[c]
         /\ lastTriggerTimes' = lastTriggerTimes]_vars

\* an edge without a cooldown is returned in the very second in which
\* another edge recorded its firing
C32_FiredInSameSecond ==
  \E c \in Conns :
    /\ dpc[c] = "h32" /\ edge[c] # 0
    /\ NoCooldown(rules[edge[c]])
    /\ \E k \in DOMAIN lastTriggerTimes : lastTriggerTimes[k] = now[c]

\* the USB thread handles the removal of a witness of the held lock that is
\* not the last one
RemovingOther ==
  /\ pc["usb"] \in {"r421", "r429", "r432"}
  /\ entry.locked /\ entry.zone = "zone3"
  /\ dev["usb"] \in entry.devices /\ entry.devices # {dev["usb"]}

\* C33: the removal of a witness that is not the last one takes that device
\* out of the witness set and changes nothing else: the zone stays Ultra,
\* the lock set, the counter as it is, and the only record logged is
\* usb_removed.
C33_OtherWitnessRemoved ==
  [][RemovingOther =>
       /\ current_zone' = "zone3" /\ ultra_mode_locked'
       /\ zone_transitions' = zone_transitions /\ accepted' = accepted
       /\ connected_usb_devices' = IF pc["usb"] = "r421"
                                     THEN entry.devices \ {dev["usb"]}
                                     ELSE connected_usb_devices
       /\ events' # events => events'[1].type = "usb_removed"
       /\ pc'["usb"] \in {"r421", "r429", "r432", UsbHome}]_vars

\* one of two witnesses has been removed: the other one holds the lock
C33_OtherWitnessKept ==
  /\ RemovingOther /\ pc["usb"] = "r432"
  /\ connected_usb_devices = entry.devices \ {dev["usb"]}
  /\ LockHeld

\* C34: a removal event for a device that is not a witness starts no
\* handling: zone, lock, witnesses, counter and event log are unchanged.
C34_UntrackedRemovalIgnored ==
  [][/\ (pc["usb"] # "r420" /\ pc'["usb"] = "r420") =>
          UNCHANGED <<zoneVars, zone_transitions, events>>
     /\ (pc["usb"] = "r420" /\ pc'["usb"] # "r420"
           /\ dev["usb"] \notin connected_usb_devices) =>
          /\ pc'["usb"] = UsbHome
          /\ UNCHANGED <<zoneVars, zone_transitions, events>>]_vars

\* a removal event for an untracked device has arrived under the held lock
C34_UntrackedUnderLock ==
  /\ pc["usb"] = "r420" /\ dev["usb"] \notin connected_usb_devices
  /\ LockHeld

\* thread t is in the handler of a plug event or of a simulated one
InPlug(t) ==
  \/ pc[t] \in {"p408", "p412", "p415", "p416", "a734", "a735", "a736"}
  \/ InTransition(t) /\ ret[t] \in {"p412", "a734"}

\* C35: under the held lock the plug of a device that is a witness already
\* changes neither zone, lock nor witness set at any step of its handler,
\* and its request for Ultra is not rejected.
C35_ReplugIdempotent ==
  [][\A t \in {"usb", "api"} :
       /\ (~InPlug(t) /\ InPlug(t)' /\ LockHeld /\ dev'[t] \in connected_usb_devices) =>
            zoneVars' = zoneVars
       /\ (InPlug(t) /\ LockHeld /\ dev[t] \in connected_usb_devices) =>
            zoneVars' = zoneVars /\ pc'[t] # "tz345"]_vars

\* a witness of the held lock has been plugged again, and the zone state is
\* what it was
C35_Replugged ==
  /\ pc["usb"] = "p416" /\ outcome["usb"] = "accepted"
  /\ entry.locked /\ entry.zone = "zone3" /\ dev["usb"] \in entry.devices
  /\ ZoneState = entry

\* C36: between events clipboard_blocked implies Ultra; a transition_zone
\* call that enters Ultra returns with clipboard_blocked set, one that leaves
\* Ultra returns with it cleared, and a rejected one leaves it as it is.
C36_ClipboardTracksUltra ==
  /\ [](Quiet => (clipboard_blocked => current_zone = "zone3"))
  /\ [][\A t \in Threads :
          /\ (pc[t] = "tz361" /\ pc'[t] # "tz361") =>
               /\ new_zone[t] = "zone3" => clipboard_blocked'
               /\ (old_zone[t] = "zone3" /\ new_zone[t] # "zone3") => ~clipboard_blocked'
          /\ (pc[t] = "tz345" /\ pc'[t] # "tz345") =>
               clipboard_blocked' = clipboard_blocked]_vars

\* Ultra was entered and left again: the clearing is off in Normal
C36_LeftUltraUnblocked ==
  /\ Quiet /\ current_zone = "zone1" /\ ~clipboard_blocked
  /\ accepted >= 2
  /\ Len(events) >= 1 /\ events[1].type = "security_unlock"

\* C38: every witness is a device whose removal the USB observer can
\* report, so that removal events can empty the witness set and clear the
\* lock.
C38_WitnessesRemovable == ultra_mode_locked => connected_usb_devices \subseteq Devices

\* a witness that no removal event names stays in the set
ApiWitnessStays ==
  [][\A d \in connected_usb_devices \ Devices : d \in connected_usb_devices']_vars

\* C37: at most one monitor_clipboard thread is running at any time.
C37_OneClearingThread ==
  Alive => Cardinality({i \in ClipThreads : ClipAlive(i)}) <= 1

\* once the clearing is switched off for good, every clearing loop exits
StoppedLoopsExit ==
  <>[](Alive /\ ~clipboard_blocked) => <>[](\A i \in ClipThreads : ~ClipAlive(i))

====
